---- MODULE Spec2Model ----
(***************************************************************************)
(* A model of the mvt-description front end: the tutorial step sequencer   *)
(* (TutorialStepManager) as driven by TutorialApp, the retry layer of      *)
(* GoogleSheetsService and its row finder.                                 *)
(***************************************************************************)
EXTENDS Integers, Sequences, FiniteSets, TLC

VARIABLES
    currentStep,      \* TutorialStepManager.currentStep
    stepValidation,   \* TutorialStepManager.stepValidation
    lastOp,           \* the last sequencer call: its arguments, return value, callbacks
    completionShown,  \* TutorialApp: the 'tutorialCompletion' modal has been shown
    calls,            \* GoogleSheetsService: the withRetry calls, one record per call
    fData,            \* findRows: the rows passed as data (data[i + 1] is row i)
    fCriteria,        \* findRows: the criteria object, column index -> matcher
    fResults,         \* what findRows(data, criteria) returned
    fFirst,           \* what findRow(data, criteria) returned
    fDone,            \* the two calls have been made
    tMap,             \* transform: the columnMapping, field name -> column index
    tObj,             \* transform: the object passed to transformObjectToRow
    tRow,             \* what transformObjectToRow(obj, mapping) returned
    tBack,            \* what transformRowToObject(row, mapping) returned
    tDone,            \* the two calls have been made
    pSheet,           \* participants: the rows of the participant sheet, as getSheetData returns them
    reg,              \* participants: per browser, the state of its registration
    filteredData,     \* survey: SurveyApp.filteredData, the local records
    localStorageData, \* survey: localStorage "filteredData", parsed
    oSheet,           \* survey: the rows appended to the onomatopoeia sheet, as sent
    currentVideoName, \* survey: SurveyApp.currentVideoName
    onomatopoeiaInput, \* survey: value of the description input
    startDisplay,     \* survey: text of the start time display
    endDisplay,       \* survey: text of the end time display
    hasRecording,     \* survey: audioRecordingService holds a recorded blob
    saveLoading,      \* survey: the save button is disabled by submitWithLoading
    saves,            \* survey: per click on 'No' or 'Save', the state of its call
    buttonStates,     \* survey: per video button, its completion class
    audio,            \* audio: state of the service, streams, recorders, errors reported,
                      \*        and whether the record button is disabled
    aStarts,          \* audio: per call of startRecording, its state
    loggedOut,        \* audio: handleLogout has run
    bTarget,          \* bubble: the target's bounding rectangle
    bBubble,          \* bubble: the bubble's bounding rectangle (its size)
    bViewport,        \* bubble: window.innerWidth and innerHeight
    bPreferences,     \* bubble: the preferences passed to positionNear
    bResult,          \* bubble: what performPositioning produced
    bDone,            \* bubble: the call has been made
    activeModals,     \* modal: ModalManager.activeModals, id -> the data stored by showModal
    modalStack,       \* modal: ModalManager.modalStack
    hideCalls,        \* modal: per call of hideModal, its state
    onCloseRuns,      \* modal: per call of showModal, how often its onClose has run
    shows,            \* modal: the number of showModal calls made
    page,             \* session: the page the browser shows
    storage,          \* session: local storage, key -> the participant who wrote it
    participant,      \* session: the number of the participant using the browser
    pageOp,           \* session: the last thing the participant did
    rEntries,         \* reasoning: ReasoningApp.allOnomatopoeiaEntries, one per slide
    rSheet,           \* reasoning: the rows of the onomatopoeia sheet, as objects
    reasoningData,    \* reasoning: ReasoningApp.reasoningData
    rStored,          \* reasoning: localStorage "reasoningData", parsed
    rOwner,           \* reasoning: per element of reasoningData, the slide it was last saved from
    rGiven,           \* reasoning: per slide, the last reasoning saved for it
    rLast,            \* reasoning: the last saveReasoning call and what it displayed
    rCount            \* reasoning: the number of saveReasoning calls made

seqVars == <<currentStep, stepValidation, lastOp, completionShown>>

retryVars == <<calls>>

findVars == <<fData, fCriteria, fResults, fFirst, fDone>>

transformVars == <<tMap, tObj, tRow, tBack, tDone>>

partVars == <<pSheet, reg>>

surveyVars ==
    <<filteredData, localStorageData, oSheet, currentVideoName, onomatopoeiaInput,
      startDisplay, endDisplay, hasRecording, saveLoading, saves, buttonStates>>

audioVars == <<audio, aStarts, loggedOut>>

bubbleVars == <<bTarget, bBubble, bViewport, bPreferences, bResult, bDone>>

modalVars == <<activeModals, modalStack, hideCalls, onCloseRuns, shows>>

sessionVars == <<page, storage, participant, pageOp>>

reasonVars == <<rEntries, rSheet, reasoningData, rStored, rOwner, rGiven, rLast, rCount>>

\* the page helpers BubblePositioner and ModalManager, the browser session, the reasoning page
extraVars == <<bubbleVars, modalVars, sessionVars, reasonVars>>

\* the step sequencer, the sheet service, the survey page and the audio service
coreVars == <<seqVars, retryVars, findVars, transformVars, partVars, surveyVars, audioVars>>

vars == <<coreVars, extraVars>>

\* what the actions of one component leave alone
notSeq == <<retryVars, findVars, transformVars, partVars, surveyVars, audioVars, extraVars>>

notRetry == <<seqVars, findVars, transformVars, partVars, surveyVars, audioVars, extraVars>>

notFind == <<seqVars, retryVars, transformVars, partVars, surveyVars, audioVars, extraVars>>

notTransform == <<seqVars, retryVars, findVars, partVars, surveyVars, audioVars, extraVars>>

notPart == <<seqVars, retryVars, findVars, transformVars, surveyVars, audioVars, extraVars>>

notSurvey == <<seqVars, retryVars, findVars, transformVars, partVars, audioVars, extraVars>>

notAudio == <<seqVars, retryVars, findVars, transformVars, partVars, surveyVars, extraVars>>

notBubble == <<coreVars, modalVars, sessionVars, reasonVars>>

notModal == <<coreVars, bubbleVars, sessionVars, reasonVars>>

notSession == <<coreVars, bubbleVars, modalVars, reasonVars>>

notReason == <<coreVars, bubbleVars, modalVars, sessionVars>>

(***************************************************************************)
(* TutorialStepManager                                                     *)
(***************************************************************************)

\* new TutorialStepManager(10)
totalSteps == 10

Steps == 1..totalSteps

\* the keys of this.stepValidation
ValidationKeys ==
    {"video_played", "clicked_yes", "entered_text",
     "clicked_start_time", "clicked_end_time", "clicked_save"}

\* an action name that is no key of stepValidation
UntrackedAction == "clicked_no"

Actions == ValidationKeys \cup {UntrackedAction}

NoValidation == "none"

stepConfigs ==
    [s \in Steps |->
        CASE s = 1  -> [type |-> "intro",      required |-> FALSE, autoAdvance |-> FALSE, validation |-> NoValidation]
          [] s = 2  -> [type |-> "action",     required |-> TRUE,  autoAdvance |-> TRUE,  validation |-> "video_played"]
          [] s = 3  -> [type |-> "info",       required |-> FALSE, autoAdvance |-> FALSE, validation |-> NoValidation]
          [] s = 4  -> [type |-> "action",     required |-> TRUE,  autoAdvance |-> TRUE,  validation |-> "clicked_yes"]
          [] s = 5  -> [type |-> "input",      required |-> TRUE,  autoAdvance |-> FALSE, validation |-> "entered_text"]
          [] s = 6  -> [type |-> "action",     required |-> TRUE,  autoAdvance |-> TRUE,  validation |-> "clicked_start_time"]
          [] s = 7  -> [type |-> "action",     required |-> TRUE,  autoAdvance |-> TRUE,  validation |-> "clicked_end_time"]
          [] s = 8  -> [type |-> "info",       required |-> FALSE, autoAdvance |-> FALSE, validation |-> NoValidation]
          [] s = 9  -> [type |-> "action",     required |-> TRUE,  autoAdvance |-> TRUE,  validation |-> "clicked_save"]
          [] OTHER  -> [type |-> "completion", required |-> FALSE, autoAdvance |-> FALSE, validation |-> NoValidation]]

NoMessage == ""

requiredActionMessages ==
    (2 :> "Please play the video to continue.") @@
    (4 :> "Please click the 'Yes' button to continue.") @@
    (5 :> "Please enter some text in the onomatopoeia field to continue.") @@
    (6 :> "Please click the 'Get Start Time' button to continue.") @@
    (7 :> "Please click the 'Get End Time' button to continue.") @@
    (9 :> "Please click the 'Save Onomatopoeia' button to continue.") @@
    (12 :> "Please click the 'No' button to continue.")

resetValidation == [k \in ValidationKeys |-> FALSE]

\* getStepConfig(stepNumber = this.currentStep)
getStepConfig(step) == stepConfigs[step]

canAdvance_IgnoresFlag(step, sv) == TRUE

canAdvance(step, sv) ==
    LET config == getStepConfig(step) IN
    IF ~config.required THEN TRUE
    ELSE IF config.validation # NoValidation /\ config.validation \in DOMAIN sv
         THEN sv[config.validation]
         ELSE TRUE

\* this.requiredActionMessages[this.currentStep] || null
getRequiredActionMessage(step) ==
    IF step \in DOMAIN requiredActionMessages THEN requiredActionMessages[step] ELSE NoMessage

resetStepSpecificValidation_Clears(sv) == resetValidation

\* resetStepSpecificValidation(): keeps every flag
resetStepSpecificValidation(sv) == sv

isComplete(step) == step >= totalSteps

\* advance(onAdvance, onRequiredAction); hasCb: the two callbacks were passed.
\* The result names the new state, the return value and the callbacks invoked.
advance(step, sv, hasCb) ==
    IF ~canAdvance(step, sv)
    THEN LET message == getRequiredActionMessage(step) IN
         [step |-> step, sv |-> sv, ret |-> FALSE,
          onRequiredAction |-> IF hasCb /\ message # NoMessage THEN message ELSE NoMessage,
          onAdvance |-> 0]
    ELSE IF step < totalSteps
         THEN [step |-> step + 1, sv |-> resetStepSpecificValidation(sv), ret |-> TRUE,
               onRequiredAction |-> NoMessage,
               onAdvance |-> IF hasCb THEN step + 1 ELSE 0]
         ELSE [step |-> step, sv |-> sv, ret |-> FALSE,
               onRequiredAction |-> NoMessage, onAdvance |-> 0]

goBack_NoFloor(step, sv) ==
    [step |-> step - 1, sv |-> resetStepSpecificValidation(sv), ret |-> TRUE]

\* goBack(onGoBack)
goBack(step, sv) ==
    IF step > 1
    THEN [step |-> step - 1, sv |-> resetStepSpecificValidation(sv), ret |-> TRUE]
    ELSE [step |-> step, sv |-> sv, ret |-> FALSE]

markActionCompleted_NoAutoAdvance(step, sv, action, hasCb) ==
    IF action \in DOMAIN sv
    THEN [sv |-> [sv EXCEPT ![action] = TRUE],
          onValidationChange |-> hasCb, onAutoAdvance |-> FALSE]
    ELSE [sv |-> sv, onValidationChange |-> FALSE, onAutoAdvance |-> FALSE]

\* markActionCompleted(action, onValidationChange, onAutoAdvance): the new flags and
\* whether onAutoAdvance(this.currentStep, action) is invoked (its last statement)
markActionCompleted(step, sv, action, hasCb) ==
    IF action \in DOMAIN sv
    THEN LET config == getStepConfig(step) IN
         [sv |-> [sv EXCEPT ![action] = TRUE],
          onValidationChange |-> hasCb,
          onAutoAdvance |-> config.autoAdvance /\ config.validation = action /\ hasCb]
    ELSE [sv |-> sv, onValidationChange |-> FALSE, onAutoAdvance |-> FALSE]

(***************************************************************************)
(* TutorialApp: the callers of the sequencer                               *)
(***************************************************************************)

nextStep_CompletesOnArrival(step, sv, shown) ==
    LET advanced == advance(step, sv, TRUE) IN
    [adv |-> advanced,
     completionShown |-> shown \/ isComplete(advanced.step)]

\* nextStep(): advance with both callbacks, then completeTutorial() when the
\* advance was refused at the last step
nextStep(step, sv, shown) ==
    LET advanced == advance(step, sv, TRUE) IN
    [adv |-> advanced,
     completionShown |-> shown \/ (~advanced.ret /\ isComplete(advanced.step))]

OpRecord(op, action, hasCb, ret, onRequiredAction, onAdvance, onAutoAdvance) ==
    [op |-> op, action |-> action, hasCb |-> hasCb,
     from |-> currentStep, prev |-> stepValidation,
     ret |-> ret, onRequiredAction |-> onRequiredAction,
     onAdvance |-> onAdvance, onAutoAdvance |-> onAutoAdvance]

RetOf(b) == IF b THEN "true" ELSE "false"

\* click on bubbleNext
NextStep ==
    LET r == nextStep(currentStep, stepValidation, completionShown) IN
    /\ UNCHANGED notSeq
    /\ currentStep' = r.adv.step
    /\ stepValidation' = r.adv.sv
    /\ completionShown' = r.completionShown
    /\ lastOp' = OpRecord("advance", "none", TRUE, RetOf(r.adv.ret),
                          r.adv.onRequiredAction, r.adv.onAdvance, FALSE)

\* click on bubblePrevious
PreviousStep ==
    LET r == goBack(currentStep, stepValidation) IN
    /\ UNCHANGED notSeq
    /\ currentStep' = r.step
    /\ stepValidation' = r.sv
    /\ lastOp' = OpRecord("goBack", "none", TRUE, RetOf(r.ret), NoMessage, 0, FALSE)
    /\ UNCHANGED completionShown

\* checkStepValidation(action), called by the play, click and input listeners:
\* markActionCompleted whose onAutoAdvance callback calls nextStep()
CheckStepValidation(action) ==
    LET m == markActionCompleted(currentStep, stepValidation, action, TRUE)
        r == nextStep(currentStep, m.sv, completionShown)
    IN  IF m.onAutoAdvance
        THEN /\ currentStep' = r.adv.step
             /\ stepValidation' = r.adv.sv
             /\ completionShown' = r.completionShown
             /\ lastOp' = OpRecord("markActionCompleted", action, TRUE, "undefined",
                                   r.adv.onRequiredAction, r.adv.onAdvance, TRUE)
        ELSE /\ stepValidation' = m.sv
             /\ lastOp' = OpRecord("markActionCompleted", action, TRUE, "undefined",
                                   NoMessage, 0, FALSE)
             /\ UNCHANGED <<currentStep, completionShown>>

\* the listeners of setupEventListeners pass the six tracked keys
Listeners ==
    /\ UNCHANGED notSeq
    /\ \E action \in ValidationKeys : CheckStepValidation(action)

(***************************************************************************)
(* The sequencer called with its default (null) callbacks                  *)
(***************************************************************************)

Advance ==
    LET r == advance(currentStep, stepValidation, FALSE) IN
    /\ UNCHANGED notSeq
    /\ currentStep' = r.step
    /\ stepValidation' = r.sv
    /\ lastOp' = OpRecord("advance", "none", FALSE, RetOf(r.ret),
                          r.onRequiredAction, r.onAdvance, FALSE)
    /\ UNCHANGED completionShown

GoBack ==
    LET r == goBack(currentStep, stepValidation) IN
    /\ UNCHANGED notSeq
    /\ currentStep' = r.step
    /\ stepValidation' = r.sv
    /\ lastOp' = OpRecord("goBack", "none", FALSE, RetOf(r.ret), NoMessage, 0, FALSE)
    /\ UNCHANGED completionShown

MarkActionCompleted ==
    /\ UNCHANGED notSeq
    /\ \E action \in Actions :
        LET m == markActionCompleted(currentStep, stepValidation, action, FALSE) IN
        /\ stepValidation' = m.sv
        /\ lastOp' = OpRecord("markActionCompleted", action, FALSE, "undefined",
                              NoMessage, 0, m.onAutoAdvance)
        /\ UNCHANGED <<currentStep, completionShown>>

\* new TutorialStepManager(10), then initializeTutorial()
InitSequencer ==
    /\ currentStep = 1
    /\ stepValidation = resetValidation
    /\ completionShown = FALSE
    /\ lastOp = [op |-> "new", action |-> "none", hasCb |-> FALSE,
                 from |-> 1, prev |-> resetValidation,
                 ret |-> "undefined", onRequiredAction |-> NoMessage,
                 onAdvance |-> 0, onAutoAdvance |-> FALSE]

(***************************************************************************)
(* GoogleSheetsService: withRetry and the four network operations          *)
(***************************************************************************)

\* this.retryAttempts
retryAttempts == 3

\* this.retryDelay, in ms
retryDelay == 1000

\* how many withRetry calls run interleaved
MaxCalls == 2

CallIds == 1..MaxCalls

OpKinds == {"getSheetData", "appendSheetData", "updateSheetData", "batchUpdate"}

\* the context string each operation passes to withRetry
Context(kind) ==
    CASE kind = "getSheetData"    -> "Getting data from sheet"
      [] kind = "appendSheetData" -> "Appending data to sheet"
      [] kind = "updateSheetData" -> "Updating range in spreadsheet"
      [] OTHER                    -> "Batch updating spreadsheet"

\* What one attempt meets on the wire: the token provider or fetch rejects, a
\* non-2xx response, a 2xx response whose body is {error: {...}}, a 2xx response
\* with the expected body.
Wires == {"rejects", "http_500", "ok_error_body", "ok"}

NoContext == ""

\* new Error(message): an error object carries a message and no context;
\* raisedBy tells the error objects of different attempts apart
Error(message, attempt) == [message |-> message, raisedBy |-> attempt, context |-> NoContext]

NoError == [message |-> "", raisedBy |-> 0, context |-> NoContext]

NoValue == "none"

Returns(value) == [ok |-> TRUE, value |-> value, message |-> ""]

Throws(message) == [ok |-> FALSE, value |-> NoValue, message |-> message]

getSheetData_ChecksBody(wire) ==
    CASE wire = "rejects"       -> Throws("Failed to fetch")
      [] wire = "http_500"      -> Throws("HTTP 500")
      [] wire = "ok_error_body" -> Throws("Sheets API error")
      [] OTHER                  -> Returns("values")

\* getSheetData's operation: throws on !response.ok, else data.values || []
getSheetData(wire) ==
    CASE wire = "rejects"       -> Throws("Failed to fetch")
      [] wire = "http_500"      -> Throws("HTTP 500")
      [] wire = "ok_error_body" -> Returns("[]")
      [] OTHER                  -> Returns("values")

\* the operation of appendSheetData, updateSheetData and batchUpdate: throws on
\* !response.ok and on result.error, else returns result
writeOperation(wire) ==
    CASE wire = "rejects"       -> Throws("Failed to fetch")
      [] wire = "http_500"      -> Throws("HTTP 500")
      [] wire = "ok_error_body" -> Throws("Sheets API error")
      [] OTHER                  -> Returns("result")

appendSheetData(wire) == writeOperation(wire)

updateSheetData(wire) == writeOperation(wire)

batchUpdate(wire) == writeOperation(wire)

operation(kind, wire) ==
    CASE kind = "getSheetData"    -> getSheetData(wire)
      [] kind = "appendSheetData" -> appendSheetData(wire)
      [] kind = "updateSheetData" -> updateSheetData(wire)
      [] OTHER                    -> batchUpdate(wire)

\* for (...; attempt <= this.retryAttempts; ...)
LoopContinues_OneMore(attempt) == attempt <= retryAttempts + 1

LoopContinues(attempt) == attempt <= retryAttempts

\* if (attempt < this.retryAttempts)
ShouldDelay(attempt) == attempt < retryAttempts

BackoffMs_Constant(attempt) == retryDelay

\* this.delay(this.retryDelay * attempt)
BackoffMs(attempt) == retryDelay * attempt

IdleCall ==
    [pc |-> "idle", kind |-> "none", attempt |-> 0,
     inflight |-> 0, invocations |-> 0, failures |-> 0,
     waits |-> <<>>, elapsed |-> 0,
     lastError |-> NoError, lastWire |-> "none", warned |-> 0,
     result |-> NoValue, thrown |-> NoError, consoleError |-> NoContext]

\* return await operation(): the operation is invoked and is in flight
invoke(cl) ==
    [cl EXCEPT !.pc = "awaitOp",
               !.inflight = @ + 1,
               !.invocations = @ + 1]

\* attempt++ and the loop test: the next attempt, or console.error and throw lastError
loopStep(cl) ==
    LET next == [cl EXCEPT !.attempt = @ + 1] IN
    IF LoopContinues(next.attempt)
    THEN invoke(next)
    ELSE [next EXCEPT !.pc = "rejected",
                      !.thrown = cl.lastError,
                      !.consoleError = Context(cl.kind)]

catchStep_KeepsFirstError(cl, error) ==
    LET caught == [cl EXCEPT !.lastError = IF cl.failures = 0 THEN error ELSE @,
                             !.warned = @ + 1,
                             !.failures = @ + 1,
                             !.inflight = @ - 1]
    IN  IF ShouldDelay(cl.attempt)
        THEN [caught EXCEPT !.pc = "awaitDelay",
                            !.waits = Append(@, BackoffMs(cl.attempt))]
        ELSE loopStep(caught)

catchStep_NoAwait(cl, error) ==
    LET caught == [cl EXCEPT !.lastError = error,
                             !.warned = @ + 1,
                             !.failures = @ + 1,
                             !.inflight = @ - 1]
    IN  IF ShouldDelay(cl.attempt)
        THEN loopStep([caught EXCEPT !.waits = Append(@, BackoffMs(cl.attempt))])
        ELSE loopStep(caught)

\* catch (error): lastError = error, console.warn, then await this.delay(...) when
\* another attempt is left; without a delay the loop goes on at once
catchStep(cl, error) ==
    LET caught == [cl EXCEPT !.lastError = error,
                             !.warned = @ + 1,
                             !.failures = @ + 1,
                             !.inflight = @ - 1]
    IN  IF ShouldDelay(cl.attempt)
        THEN [caught EXCEPT !.pc = "awaitDelay",
                            !.waits = Append(@, BackoffMs(cl.attempt))]
        ELSE loopStep(caught)

\* a caller starts one of the four operations: withRetry enters its loop with
\* attempt = 1 and invokes operation()
WithRetry(c) ==
    /\ calls[c].pc = "idle"
    /\ \E kind \in OpKinds :
          calls' = [calls EXCEPT ![c] = invoke([@ EXCEPT !.kind = kind, !.attempt = 1])]
    /\ UNCHANGED notRetry

\* the attempt in flight settles with a value: withRetry returns it
OpResolve(c) ==
    /\ calls[c].pc = "awaitOp"
    /\ \E wire \in Wires :
          LET out == operation(calls[c].kind, wire) IN
          /\ out.ok
          /\ calls' = [calls EXCEPT ![c] = [@ EXCEPT !.pc = "resolved",
                                                     !.inflight = @ - 1,
                                                     !.lastWire = wire,
                                                     !.result = out.value]]
    /\ UNCHANGED notRetry

\* the attempt in flight throws: the catch block of withRetry
OpReject(c) ==
    /\ calls[c].pc = "awaitOp"
    /\ \E wire \in Wires :
          LET out == operation(calls[c].kind, wire) IN
          /\ ~out.ok
          /\ calls' = [calls EXCEPT ![c] =
                          catchStep([@ EXCEPT !.lastWire = wire],
                                    Error(out.message, calls[c].attempt))]
    /\ UNCHANGED notRetry

\* the timer of delay(ms) fires: the loop goes on
DelayElapsed(c) ==
    /\ calls[c].pc = "awaitDelay"
    /\ calls' = [calls EXCEPT ![c] = loopStep([@ EXCEPT !.elapsed = @ + 1])]
    /\ UNCHANGED notRetry

InitRetry == calls = [c \in CallIds |-> IdleCall]

(***************************************************************************)
(* GoogleSheetsService: findRows and findRow                               *)
(***************************************************************************)

\* the longest data array tried
MaxRows == 3

\* the column indices used: a row holds one or two cells
Columns == {0, 1}

\* JavaScript values: strings, numbers, undefined and functions
Str(s) == [t |-> "string", s |-> s, n |-> 0]

Num(n) == [t |-> "number", s |-> "", n |-> n]

Undefined == [t |-> "undefined", s |-> "", n |-> 0]

Fn(name) == [t |-> "function", s |-> name, n |-> 0]

\* the cells of a sheet are strings
CellValues == {Str("a"), Str("A"), Str("1")}

Rows == UNION {[1..len -> CellValues] : len \in 1..2}

DataArrays == UNION {[1..len -> Rows] : len \in 0..MaxRows}

\* a literal string, a literal number and a predicate function
Matchers == {Str("a"), Num(1), Fn("sameAsFirstCellAfterRow1")}

CriteriaObjects == UNION {[cols -> Matchers] : cols \in SUBSET Columns}

\* String.prototype.toLowerCase on the strings used
toLowerCase(str) == IF str = "A" THEN "a" ELSE str

\* ToNumber(string) is a number and not NaN, on the strings used
IsNumericString(str) == str = "1"

\* ToNumber(string) of a numeric string
ToNumber(str) == IF str = "1" THEN 1 ELSE 0

\* x == y of JavaScript on these values
looseEquals(x, y) ==
    CASE x.t = "undefined" \/ y.t = "undefined" -> x.t = y.t
      [] x.t = "number" /\ y.t = "number" -> x.n = y.n
      [] x.t = "string" /\ y.t = "string" -> x.s = y.s
      [] x.t = "number" /\ y.t = "string" -> IsNumericString(y.s) /\ ToNumber(y.s) = x.n
      [] x.t = "string" /\ y.t = "number" -> IsNumericString(x.s) /\ ToNumber(x.s) = y.n
      [] OTHER -> FALSE

\* row[index] of an array: undefined past its end
cellAt(row, index) == IF index + 1 \in DOMAIN row THEN row[index + 1] ELSE Undefined

\* the predicate passed as a matcher: (cellValue, fullRow, rowIndex) => boolean
callPredicate(fn, cellValue, fullRow, rowIndex) ==
    /\ fn.s = "sameAsFirstCellAfterRow1"
    /\ cellValue = cellAt(fullRow, 0)
    /\ rowIndex > 1

\* one pass of the inner loop: FALSE where the code sets matches = false
criterionMatches(expectedValue, row, columnIndex, i) ==
    LET actualValue == cellAt(row, columnIndex) IN
    IF expectedValue.t = "function"
    THEN callPredicate(expectedValue, actualValue, row, i)
    ELSE IF expectedValue.t = "string" /\ actualValue.t = "string"
         THEN toLowerCase(actualValue.s) = toLowerCase(expectedValue.s)
         ELSE looseEquals(actualValue, expectedValue)

RECURSIVE findRowsLoop(_, _, _)
\* for (let i = ...; i < data.length; i++) with results.push
findRowsLoop(data, criteria, i) ==
    IF i >= Len(data)
    THEN <<>>
    ELSE LET row == data[i + 1]
             matches == \A columnIndex \in DOMAIN criteria :
                            criterionMatches(criteria[columnIndex], row, columnIndex, i)
         IN  (IF matches THEN <<[rowIndex |-> i, data |-> row]>> ELSE <<>>)
                 \o findRowsLoop(data, criteria, i + 1)

findRows_FromHeader(data, criteria) == findRowsLoop(data, criteria, 0)

findRows(data, criteria) ==
    IF Len(data) <= 1 THEN <<>> ELSE findRowsLoop(data, criteria, 1)

Null == [rowIndex |-> -1, data |-> <<>>]

findRow(data, criteria) ==
    LET results == findRows(data, criteria) IN
    IF Len(results) > 0 THEN results[1] ELSE Null

\* one caller evaluates findRows and findRow on the same arguments
Find ==
    /\ ~fDone
    /\ fResults' = findRows(fData, fCriteria)
    /\ fFirst' = findRow(fData, fCriteria)
    /\ fDone' = TRUE
    /\ UNCHANGED <<fData, fCriteria>>
    /\ UNCHANGED notFind

InitFindIdle ==
    /\ fData = <<>>
    /\ fCriteria = <<>>
    /\ fResults = <<>>
    /\ fFirst = Null
    /\ fDone = TRUE

InitFind ==
    /\ fData \in DataArrays
    /\ fCriteria \in CriteriaObjects
    /\ fResults = <<>>
    /\ fFirst = Null
    /\ fDone = FALSE

(***************************************************************************)
(* GoogleSheetsService: transformObjectToRow and transformRowToObject      *)
(***************************************************************************)

\* the largest column index a mapping uses
MaxColumn == 3

\* field names of a mapping
FieldNames == {"participantId", "email", "name"}

FieldValues == {Str("a"), Num(1)}

IsInjective(f) == \A j, k \in DOMAIN f : j # k => f[j] # f[k]

\* the mappings with unique column indices and at least one field
ColumnMappings ==
    {m \in UNION {[keys -> 0..MaxColumn] : keys \in SUBSET FieldNames \ {{}}} : IsInjective(m)}

\* the objects whose keys are fields of the mapping
ObjectsOf(mapping) == UNION {[keys -> FieldValues] : keys \in SUBSET DOMAIN mapping}

\* obj[key]: undefined for a key the object does not have
prop(obj, key) == IF key \in DOMAIN obj THEN obj[key] ELSE Undefined

\* Math.max(...Object.values(columnMapping))
maxIndex(columnMapping) ==
    CHOOSE n \in {columnMapping[k] : k \in DOMAIN columnMapping} :
        \A k \in DOMAIN columnMapping : columnMapping[k] <= n

\* transformObjectToRow: new Array(max + 1), then row[columnIndex] = obj[key];
\* a hole of the array reads as undefined (row[i + 1] is element i)
transformObjectToRow(obj, columnMapping) ==
    [i \in 1..(maxIndex(columnMapping) + 1) |->
        IF \E key \in DOMAIN columnMapping : columnMapping[key] = i - 1
        THEN prop(obj, CHOOSE key \in DOMAIN columnMapping : columnMapping[key] = i - 1)
        ELSE Undefined]

transformRowToObject_OffByOne(row, columnMapping) ==
    [key \in DOMAIN columnMapping |-> cellAt(row, columnMapping[key] + 1)]

\* transformRowToObject: obj[key] = row[columnIndex] for every key of the mapping
transformRowToObject(row, columnMapping) ==
    [key \in DOMAIN columnMapping |-> cellAt(row, columnMapping[key])]

\* one caller turns the object into a row and the row back into an object
Transform ==
    /\ ~tDone
    /\ tRow' = transformObjectToRow(tObj, tMap)
    /\ tBack' = transformRowToObject(transformObjectToRow(tObj, tMap), tMap)
    /\ tDone' = TRUE
    /\ UNCHANGED <<tMap, tObj>>
    /\ UNCHANGED notTransform

InitTransformIdle ==
    /\ tMap = <<>>
    /\ tObj = <<>>
    /\ tRow = <<>>
    /\ tBack = <<>>
    /\ tDone = TRUE

InitTransform ==
    /\ tMap \in ColumnMappings
    /\ tObj \in ObjectsOf(tMap)
    /\ tRow = <<>>
    /\ tBack = <<>>
    /\ tDone = FALSE

(***************************************************************************)
(* IndexApp.handleParticipantSubmit and GoogleSheetsService                *)
(* .saveNewParticipant, one registration per browser                       *)
(***************************************************************************)

\* browsers that register
MaxRegistrations == 2

\* participants already in the sheet
MaxExisting == 2

Registrations == 1..MaxRegistrations

\* decimal strings of the IDs in use
DigitStrings == <<"1", "2", "3", "4", "5", "6", "7", "8", "9">>

\* String(n) of an ID and of the age 30
numberToString(n) == IF n \in DOMAIN DigitStrings THEN DigitStrings[n] ELSE "30"

NaN == [t |-> "number", s |-> "NaN", n |-> 0]

isNaN(v) == v = NaN

\* parseInt(value) on a cell: the integer of a decimal string, NaN for
\* undefined, "" and text
parseInt(v) ==
    IF v.t = "string" /\ \E n \in DOMAIN DigitStrings : DigitStrings[n] = v.s
    THEN Num(CHOOSE n \in DOMAIN DigitStrings : DigitStrings[n] = v.s)
    ELSE IF v.t = "number" THEN v ELSE NaN

participantMapping ==
    [participantId |-> 0, email |-> 1, name |-> 2, age |-> 3, gender |-> 4,
     nativeLanguage |-> 5, registrationTimestamp |-> 6]

HeaderRow ==
    <<Str("participantId"), Str("email"), Str("name"), Str("age"), Str("gender"),
      Str("nativeLanguage"), Str("registrationTimestamp")>>

\* obtainDate(): the ISO string of the current time
obtainDate == Str("2025-01-01T00:00:00Z")

Emails == <<"a@x.org", "b@x.org", "c@x.org", "d@x.org">>

\* what validateAndCollectFormData returns for browser r
formDataOf(r) ==
    [email |-> Str(Emails[r]), name |-> Str("n"), age |-> Num(30), gender |-> Str("f"),
     nativeLanguage |-> Str("en")]

\* a value of the request body as the sheet returns it on a read: RAW numbers
\* come back as their decimal string, a null cell as ""
storedCell(v) ==
    CASE v.t = "number" -> Str(numberToString(v.n))
      [] v.t = "undefined" -> Str("")
      [] OTHER -> v

storedRow(row) == [i \in DOMAIN row |-> storedCell(row[i])]

\* a row written by an earlier registration; an empty row reads as []
ExistingRow(cell0) ==
    IF cell0 = "" THEN <<>>
    ELSE <<Str(cell0), Str("old@x.org"), Str("n"), Str("30"), Str("f"), Str("en"),
           Str("2024-01-01T00:00:00Z")>>

ExistingCells == {DigitStrings[n] : n \in 1..MaxExisting} \cup {""}

\* column 0 of the rows after the header: distinct IDs, in any order
IdColumns ==
    {d \in UNION {[1..len -> ExistingCells] : len \in 0..MaxExisting} :
        \A j, k \in DOMAIN d : (j # k /\ d[j] # "") => d[j] # d[k]}

\* the header, then the rows of the earlier registrations
ParticipantSheets ==
    {<<HeaderRow>> \o [i \in DOMAIN d |-> ExistingRow(d[i])] : d \in IdColumns}

\* the loop of saveNewParticipant over data[i][0], i = 1 .. data.length - 1
RECURSIVE maxIdLoop(_, _, _)
maxIdLoop(data, i, maxId) ==
    IF i + 1 > Len(data) THEN maxId
    ELSE LET id == parseInt(cellAt(data[i + 1], 0))
         IN  maxIdLoop(data, i + 1, IF ~isNaN(id) /\ id.n > maxId THEN id.n ELSE maxId)

newParticipantId_FromLength(data) == Len(data)

\* maxId + 1
newParticipantId(data) ==
    (IF Len(data) > 1 THEN maxIdLoop(data, 1, 0) ELSE 0) + 1

\* {...participantData, participantId, registrationTimestamp}
participantWithId(participantData, data) ==
    [key \in DOMAIN participantData \cup {"participantId", "registrationTimestamp"} |->
        CASE key = "participantId" -> Num(newParticipantId(data))
          [] key = "registrationTimestamp" -> obtainDate
          [] OTHER -> participantData[key]]

NoRecord == <<>>

IdleRegistration ==
    [pc |-> "idle", formData |-> NoRecord, data |-> <<>>, participant |-> NoRecord,
     newRow |-> <<>>, appended |-> <<>>, returned |-> NoRecord,
     participantInfo |-> NoRecord, page |-> "index.html", error |-> FALSE]

\* handleParticipantSubmit with valid form data: saveNewParticipant is called
\* and awaits getSheetData
HandleParticipantSubmit(r) ==
    /\ reg[r].pc = "idle"
    /\ reg' = [reg EXCEPT ![r].pc = "awaitGetSheetData", ![r].formData = formDataOf(r)]
    /\ UNCHANGED pSheet
    /\ UNCHANGED notPart

\* getSheetData resolves with the rows of the sheet: the ID is computed, the
\* row is built and appendSheetData is awaited
GetSheetDataResolves(r) ==
    /\ reg[r].pc = "awaitGetSheetData"
    /\ reg' = [reg EXCEPT
                 ![r].pc = "awaitAppend",
                 ![r].data = pSheet,
                 ![r].participant = participantWithId(reg[r].formData, pSheet),
                 ![r].newRow = transformObjectToRow(participantWithId(reg[r].formData, pSheet),
                                                    participantMapping)]
    /\ UNCHANGED pSheet
    /\ UNCHANGED notPart

\* getSheetData rejects: saveNewParticipant rejects, the handler's catch shows
\* the error
GetSheetDataRejects(r) ==
    /\ reg[r].pc = "awaitGetSheetData"
    /\ reg' = [reg EXCEPT ![r].pc = "failed", ![r].error = TRUE]
    /\ UNCHANGED pSheet
    /\ UNCHANGED notPart

\* appendSheetData resolves: the row is in the sheet, saveNewParticipant
\* returns the record, the handler stores it and leaves for survey.html
AppendResolves(r) ==
    /\ reg[r].pc = "awaitAppend"
    /\ pSheet' = Append(pSheet, storedRow(reg[r].newRow))
    /\ reg' = [reg EXCEPT
                 ![r].pc = "done",
                 ![r].appended = Append(reg[r].appended, reg[r].newRow),
                 ![r].returned = reg[r].participant,
                 ![r].participantInfo = reg[r].participant,
                 ![r].page = "survey.html"]
    /\ UNCHANGED notPart

\* appendSheetData rejects: nothing is written, the handler's catch shows the error
AppendRejects(r) ==
    /\ reg[r].pc = "awaitAppend"
    /\ reg' = [reg EXCEPT ![r].pc = "failed", ![r].error = TRUE]
    /\ UNCHANGED pSheet
    /\ UNCHANGED notPart

InitParticipantsIdle ==
    /\ pSheet = <<HeaderRow>>
    /\ reg = [r \in Registrations |-> IdleRegistration]

InitParticipants ==
    /\ pSheet \in ParticipantSheets
    /\ reg = [r \in Registrations |-> IdleRegistration]

(***************************************************************************)
(* SurveyApp: the 'No' and 'Save' buttons, the time captures and           *)
(* saveOnomatopoeia                                                        *)
(***************************************************************************)

\* clicks on 'No' or 'Save'
MaxSaves == 2

SaveIds == 1..MaxSaves

\* the video buttons, in page order
VideoNames == <<"1.mp4", "2.mp4">>

JsNull == [t |-> "null", s |-> "", n |-> 0]

Blob == [t |-> "object", s |-> "Blob", n |-> 0]

\* videoPlayer.currentTime, in milliseconds
Positions == {504, 1234}

\* the decimal text of a number of hundredths of a second
HundredthTexts == [h \in {50, 123} |-> IF h = 50 THEN "0.50" ELSE "1.23"]

\* currentTime.toFixed(2): rounded to hundredths, as text
toFixed(ms) == HundredthTexts[(ms + 5) \div 10]

\* parseFloat(text): the number (held in hundredths) of a decimal text, NaN
\* for "null", "-.--" and ""
parseFloat(v) ==
    IF v.t = "string" /\ \E h \in DOMAIN HundredthTexts : HundredthTexts[h] = v.s
    THEN Num(CHOOSE h \in DOMAIN HundredthTexts : HundredthTexts[h] = v.s)
    ELSE NaN

InputTexts == {" doki "}

\* String.prototype.trim on the texts typed
trim(text) == IF text = " doki " THEN "doki" ELSE text

truthy(v) == v \notin {Undefined, JsNull, Str(""), Num(0), NaN}

\* v || w
or(v, w) == IF truthy(v) THEN v ELSE w

\* localStorage participantInfo of a participant who has just registered
participantInfo == [participantId |-> Num(1), name |-> Str("n"), email |-> Str("a@x.org")]

\* the infoDict of handleNoOnomatopoeia
noInfoDict(video) ==
    [participantId |-> participantInfo.participantId,
     participantName |-> or(participantInfo.name, participantInfo.email),
     video |-> Str(video),
     movement |-> Str("null"),
     startTime |-> Str("null"),
     endTime |-> Str("null"),
     answeredTimestamp |-> obtainDate,
     hasAudio |-> Num(0)]

\* the infoDict of handleSaveOnomatopoeia
saveInfoDict(video, input, start, end, recording) ==
    [participantId |-> participantInfo.participantId,
     participantName |-> or(participantInfo.name, participantInfo.email),
     video |-> Str(video),
     movement |-> or(Str(trim(input)), Str("")),
     startTime |-> or(Str(start), Str("-.--")),
     endTime |-> or(Str(end), Str("-.--")),
     answeredTimestamp |-> obtainDate,
     hasAudio |-> IF recording THEN Num(1) ELSE Num(0),
     audioBlob |-> IF recording THEN Blob ELSE JsNull]

validateOnomatopoeiaData_NoTimeCheck(infoDict) ==
    /\ ~(~truthy(infoDict.movement) \/ trim(infoDict.movement.s) = "")
    /\ truthy(infoDict.participantId)
    /\ truthy(infoDict.video)
    /\ truthy(infoDict.answeredTimestamp)

\* ValidationUtils.validateOnomatopoeiaData(infoDict).isValid
validateOnomatopoeiaData(infoDict) ==
    /\ ~(~truthy(infoDict.movement) \/ trim(infoDict.movement.s) = "")
    /\ infoDict.startTime # Str("-.--")
    /\ infoDict.endTime # Str("-.--")
    /\ truthy(infoDict.participantId)
    /\ truthy(infoDict.video)
    /\ truthy(infoDict.answeredTimestamp)

\* infoDict.audioBlob && infoDict.hasAudio === 1
needsUpload(infoDict) == truthy(prop(infoDict, "audioBlob")) /\ infoDict.hasAudio = Num(1)

onomatopoeiaMapping ==
    [participantId |-> 0, participantName |-> 1, video |-> 2, movement |-> 3,
     startTime |-> 4, endTime |-> 5, answeredTimestamp |-> 6, hasAudio |-> 7,
     audioFileName |-> 8, emotion |-> 9]

\* the record saveOnomatopoeia passes to the service
onomatopoeiaData(infoDict, audioFileName) ==
    [participantId |-> parseInt(infoDict.participantId),
     participantName |-> infoDict.participantName,
     video |-> infoDict.video,
     movement |-> infoDict.movement,
     startTime |-> parseFloat(infoDict.startTime),
     endTime |-> parseFloat(infoDict.endTime),
     answeredTimestamp |-> infoDict.answeredTimestamp,
     hasAudio |-> or(infoDict.hasAudio, Num(0)),
     audioFileName |-> or(audioFileName, Str(""))]

\* JSON.stringify of an array element: NaN and undefined become null
jsonValue(v) == IF v \in {NaN, Undefined} THEN JsNull ELSE v

\* the row of the request body of appendSheetData
requestRow(infoDict, audioFileName) ==
    LET row == transformObjectToRow(onomatopoeiaData(infoDict, audioFileName),
                                    onomatopoeiaMapping)
    IN  [i \in DOMAIN row |-> jsonValue(row[i])]

\* {...infoDict, hasAudio, audioFileName} without audioBlob
updatedInfoDict(infoDict, audioFileName) ==
    [key \in (DOMAIN infoDict \cup {"audioFileName"}) \ {"audioBlob"} |->
        CASE key = "hasAudio" -> or(infoDict.hasAudio, Num(0))
          [] key = "audioFileName" -> audioFileName
          [] OTHER -> infoDict[key]]

\* JSON.parse(JSON.stringify(record)): undefined properties are dropped, NaN
\* becomes null
jsonRecord(rec) ==
    [key \in {k \in DOMAIN rec : rec[k] # Undefined} |-> jsonValue(rec[key])]

jsonArray(arr) == [i \in DOMAIN arr |-> jsonRecord(arr[i])]

\* filteredData.filter(item => item["video"] === currentVideoName)
currentVideoData(data, video) == SelectSeq(data, LAMBDA item : item.video = Str(video))

\* what the form held when 'Save' was clicked: no description but white
\* space, a start or end time display still at "-.--"
FormAtClick == [blank |-> trim(onomatopoeiaInput) = "", noStart |-> startDisplay = "-.--",
                noEnd |-> endDisplay = "-.--", recording |-> hasRecording]

NoForm == [blank |-> FALSE, noStart |-> FALSE, noEnd |-> FALSE, recording |-> FALSE]

IdleSave ==
    [pc |-> "idle", by |-> "", form |-> NoForm, infoDict |-> <<>>, audioFileName |-> JsNull,
     uploads |-> 0, appends |-> 0, pushed |-> FALSE, caughtBy |-> "", shown |-> FALSE]

\* the next free call record
IsNextSave(c) == saves[c].pc = "idle" /\ \A d \in SaveIds : d < c => saves[d].pc # "idle"

\* uiManager.resetForm(docElts, ['onomatopoeiaInput', 'startDisplay', 'endDisplay'])
ResetForm ==
    /\ onomatopoeiaInput' = ""
    /\ startDisplay' = "-.--"
    /\ endDisplay' = "-.--"

\* the determineState callback of resetDisplay; the result null is ""
determineState(videoName, data) ==
    LET videoData == SelectSeq(data, LAMBDA item : prop(item, "video") = Str(videoName))
        hasActualOnomatopoeia ==
            \E i \in DOMAIN videoData : prop(videoData[i], "onomatopoeia") # Str("null")
    IN  IF Len(videoData) > 0
        THEN (IF hasActualOnomatopoeia THEN "completed" ELSE "no-onomatopoeia")
        ELSE ""

\* VideoManager.updateButtonCompletionStates: the class of each video button
updateButtonCompletionStates(completionData) ==
    [v \in DOMAIN VideoNames |-> determineState(VideoNames[v], completionData)]

\* SurveyApp.resetDisplay(currentVideoName, filteredData, docElts)
ResetDisplay(data) ==
    /\ ResetForm
    /\ buttonStates' = updateButtonCompletionStates(data)

\* a click on video button v: onVideoChange sets the name, deletes the
\* recording and resets the display
OnVideoChange(v) ==
    /\ currentVideoName' = VideoNames[v]
    /\ hasRecording' = FALSE
    /\ ResetDisplay(filteredData)
    /\ UNCHANGED <<filteredData, localStorageData, oSheet, saveLoading, saves>>
    /\ UNCHANGED notSurvey

TypeOnomatopoeia(text) ==
    /\ onomatopoeiaInput' = text
    /\ UNCHANGED <<filteredData, localStorageData, oSheet, buttonStates, currentVideoName, startDisplay,
                   endDisplay, hasRecording, saveLoading, saves>>
    /\ UNCHANGED notSurvey

CaptureStartTime(ms) ==
    /\ startDisplay' = toFixed(ms)
    /\ UNCHANGED <<filteredData, localStorageData, oSheet, buttonStates, currentVideoName,
                   onomatopoeiaInput, endDisplay, hasRecording, saveLoading, saves>>
    /\ UNCHANGED notSurvey

CaptureEndTime(ms) ==
    /\ endDisplay' = toFixed(ms)
    /\ UNCHANGED <<filteredData, localStorageData, oSheet, buttonStates, currentVideoName,
                   onomatopoeiaInput, startDisplay, hasRecording, saveLoading, saves>>
    /\ UNCHANGED notSurvey

\* a recording ends: the service holds a blob
RecordAudio ==
    /\ ~hasRecording
    /\ hasRecording' = TRUE
    /\ UNCHANGED <<filteredData, localStorageData, oSheet, buttonStates, currentVideoName,
                   onomatopoeiaInput, startDisplay, endDisplay, saveLoading, saves>>
    /\ UNCHANGED notSurvey

\* goToNextVideo(currentButton): a click on the button after the one that was
\* active at the time of the click on 'No'
GoToNextVideo(video) ==
    LET index == CHOOSE v \in DOMAIN VideoNames : VideoNames[v] = video IN
    IF index < Len(VideoNames)
    THEN /\ currentVideoName' = VideoNames[index + 1]
         /\ hasRecording' = FALSE
    ELSE UNCHANGED <<currentVideoName, hasRecording>>

\* saveOnomatopoeia up to its first await, for a valid infoDict
StartSave(c, by, form, infoDict) ==
    saves' = [saves EXCEPT ![c] =
                [IdleSave EXCEPT
                    !.pc = IF needsUpload(infoDict) THEN "awaitUpload" ELSE "awaitAppend",
                    !.by = by,
                    !.form = form,
                    !.infoDict = infoDict,
                    !.uploads = IF needsUpload(infoDict) THEN 1 ELSE 0,
                    !.appends = IF needsUpload(infoDict) THEN 0 ELSE 1]]

\* a click on 'No': a sentinel is saved when filteredData has no record of the
\* current video, then the display is reset and the next video is selected
HandleNoOnomatopoeia(c) ==
    /\ IsNextSave(c)
    /\ IF Len(currentVideoData(filteredData, currentVideoName)) # 0
       THEN /\ saves' = [saves EXCEPT ![c] = [IdleSave EXCEPT !.pc = "skipped", !.by = "no"]]
            /\ ResetDisplay(filteredData)
            /\ GoToNextVideo(currentVideoName)
       ELSE /\ StartSave(c, "no", NoForm, noInfoDict(currentVideoName))
            /\ UNCHANGED <<currentVideoName, onomatopoeiaInput, startDisplay, endDisplay,
                           hasRecording, buttonStates>>
    /\ UNCHANGED <<filteredData, localStorageData, oSheet, saveLoading>>
    /\ UNCHANGED notSurvey

\* a click on 'Save': invalid data makes saveOnomatopoeia throw at once, the
\* error is shown and caught here; valid data starts the save
HandleSaveOnomatopoeia(c) ==
    LET infoDict == saveInfoDict(currentVideoName, onomatopoeiaInput, startDisplay,
                                 endDisplay, hasRecording)
    IN  /\ IsNextSave(c)
        /\ ~saveLoading
        /\ IF validateOnomatopoeiaData(infoDict)
           THEN /\ StartSave(c, "save", FormAtClick, infoDict)
                /\ saveLoading' = TRUE
           ELSE /\ saves' = [saves EXCEPT ![c] =
                               [IdleSave EXCEPT !.pc = "rejected", !.by = "save",
                                                !.form = FormAtClick,
                                                !.caughtBy = "handleSaveOnomatopoeia",
                                                !.shown = TRUE]]
                /\ saveLoading' = FALSE
        /\ UNCHANGED <<filteredData, localStorageData, oSheet, buttonStates, currentVideoName,
                       onomatopoeiaInput, startDisplay, endDisplay, hasRecording>>
        /\ UNCHANGED notSurvey

\* uploadAudioFile resolves with the file name: the row is sent
UploadResolves(c) ==
    /\ saves[c].pc = "awaitUpload"
    /\ saves' = [saves EXCEPT ![c].pc = "awaitAppend", ![c].audioFileName = Str("1.webm"),
                              ![c].appends = 1]
    /\ UNCHANGED <<filteredData, localStorageData, oSheet, buttonStates, currentVideoName,
                   onomatopoeiaInput, startDisplay, endDisplay, hasRecording, saveLoading>>
    /\ UNCHANGED notSurvey

\* uploadAudioFile rejects: caught in saveOnomatopoeia, the row is sent
\* without a file name
UploadRejects(c) ==
    /\ saves[c].pc = "awaitUpload"
    /\ saves' = [saves EXCEPT ![c].pc = "awaitAppend", ![c].appends = 1, ![c].shown = TRUE]
    /\ UNCHANGED <<filteredData, localStorageData, oSheet, buttonStates, currentVideoName,
                   onomatopoeiaInput, startDisplay, endDisplay, hasRecording, saveLoading>>
    /\ UNCHANGED notSurvey

\* googleSheetsService.saveOnomatopoeia resolves: the row is in the sheet, the
\* local record is pushed and stored, and the handler resets the display
SaveAppendResolves(c) ==
    /\ saves[c].pc = "awaitAppend"
    /\ oSheet' = Append(oSheet, requestRow(saves[c].infoDict, saves[c].audioFileName))
    /\ filteredData' =
          Append(filteredData, updatedInfoDict(saves[c].infoDict, saves[c].audioFileName))
    /\ localStorageData' =
          jsonArray(Append(filteredData,
                           updatedInfoDict(saves[c].infoDict, saves[c].audioFileName)))
    /\ saves' = [saves EXCEPT ![c].pc = "resolved", ![c].pushed = TRUE]
    /\ ResetDisplay(filteredData')
    /\ IF saves[c].by = "no"
       THEN GoToNextVideo(saves[c].infoDict.video.s) /\ UNCHANGED saveLoading
       ELSE saveLoading' = FALSE /\ UNCHANGED <<currentVideoName, hasRecording>>
    /\ UNCHANGED notSurvey

\* googleSheetsService.saveOnomatopoeia rejects: nothing is pushed, the
\* handler's catch logs the error
SaveAppendRejects(c) ==
    /\ saves[c].pc = "awaitAppend"
    /\ saves' = [saves EXCEPT
                   ![c].pc = "rejected",
                   ![c].infoDict = <<>>,
                   ![c].audioFileName = JsNull,
                   ![c].caughtBy = IF saves[c].by = "no" THEN "handleNoOnomatopoeia"
                                   ELSE "handleSaveOnomatopoeia",
                   ![c].shown = saves[c].by = "save"]
    /\ saveLoading' = IF saves[c].by = "save" THEN FALSE ELSE saveLoading
    /\ UNCHANGED <<filteredData, localStorageData, oSheet, buttonStates, currentVideoName,
                   onomatopoeiaInput, startDisplay, endDisplay, hasRecording>>
    /\ UNCHANGED notSurvey

InitSurveyIdle ==
    /\ filteredData = <<>>
    /\ localStorageData = <<>>
    /\ oSheet = <<>>
    /\ currentVideoName = VideoNames[1]
    /\ onomatopoeiaInput = ""
    /\ startDisplay = "-.--"
    /\ endDisplay = "-.--"
    /\ hasRecording = FALSE
    /\ saveLoading = FALSE
    /\ saves = [c \in SaveIds |-> [IdleSave EXCEPT !.pc = "unused"]]
    /\ buttonStates = updateButtonCompletionStates(<<>>)

\* the survey page of a new participant after onVideoLoad
InitSurvey ==
    /\ filteredData = <<>>
    /\ localStorageData = <<>>
    /\ oSheet = <<>>
    /\ currentVideoName = VideoNames[1]
    /\ onomatopoeiaInput = ""
    /\ startDisplay = "-.--"
    /\ endDisplay = "-.--"
    /\ hasRecording = FALSE
    /\ saveLoading = FALSE
    /\ saves = [c \in SaveIds |-> IdleSave]
    /\ buttonStates = updateButtonCompletionStates(<<>>)

(***************************************************************************)
(* AudioRecordingService and the capture streams it obtains                *)
(***************************************************************************)

\* calls of startRecording; call k obtains stream k and builds recorder k
MaxStarts == 2

StartIds == 1..MaxStarts

\* the limit of a recording, 10 * 1024 * 1024 bytes, in MB
sizeLimit == 10

\* event.data.size of a dataavailable event, in MB
ChunkSizes == {0, 6}

\* this.state.mediaRecorder === null
NoRecorder == 0

RECURSIVE totalSize(_)
\* audioChunks.reduce((total, chunk) => total + chunk.size, 0)
totalSize(chunks) == IF chunks = <<>> THEN 0 ELSE Head(chunks) + totalSize(Tail(chunks))

\* error.name === 'NotAllowedError' ? 'PERMISSION_DENIED' : 'GENERIC_ERROR'
errorType_AlwaysGeneric(name) == "GENERIC_ERROR"

errorType(name) == IF name = "NotAllowedError" THEN "PERMISSION_DENIED" ELSE "GENERIC_ERROR"

\* MediaRecorder.stop(): a recorder that records becomes inactive and its
\* dataavailable and stop events are queued; on an inactive recorder the call
\* throws, and the callers below catch or never reach that case
recorderStop(a, r) ==
    IF a.recorders[r] = "recording" THEN [a EXCEPT !.recorders[r] = "stopping"] ELSE a

\* stream.getTracks().forEach(track => track.stop()) on stream r: a recorder
\* whose tracks have all ended stops as by stop()
stopTracks(a, r) == [recorderStop(a, r) EXCEPT !.streams[r] = "stopped"]

\* reset(): stops the recorder of the state, revokes the URL, stops the tracks
\* of the stream of the recorder of the state, and clears the state
reset(a) ==
    LET r == a.state.mediaRecorder
        stopped == IF a.state.isRecording /\ r # NoRecorder THEN recorderStop(a, r) ELSE a
        released == IF r # NoRecorder THEN stopTracks(stopped, r) ELSE stopped
    IN  [released EXCEPT !.state = [@ EXCEPT !.mediaRecorder = NoRecorder, !.audioChunks = <<>>,
                                             !.recordedAudioBlob = FALSE, !.audioUrl = FALSE,
                                             !.isRecording = FALSE]]

\* handleError(type, message): onError(type, message), then reset()
handleError(a, type) == reset([a EXCEPT !.errors = Append(@, type)])

\* stopRecording()
stopRecording(a) ==
    IF a.state.mediaRecorder # NoRecorder /\ a.recorders[a.state.mediaRecorder] = "recording"
    THEN recorderStop(a, a.state.mediaRecorder)
    ELSE a

\* the 'dataavailable' listener
onDataAvailable(a, size) ==
    IF size > 0
    THEN IF totalSize(a.state.audioChunks) + size > sizeLimit
         THEN handleError(stopRecording(a), "FILE_TOO_LARGE")
         ELSE [a EXCEPT !.state.audioChunks = Append(@, size)]
    ELSE a

\* the 'stop' listener of recorder r, which closes over the stream of r; with
\* mediaRecorder null the read of mediaRecorder.mimeType throws and the
\* listener ends there
onStop(a, r) ==
    IF a.state.audioChunks = <<>> THEN handleError(a, "NO_AUDIO_DATA")
    ELSE IF a.state.mediaRecorder = NoRecorder THEN a
    ELSE [stopTracks(a, r) EXCEPT !.state.recordedAudioBlob = TRUE, !.state.audioUrl = TRUE,
                                  !.state.isRecording = FALSE]

\* a task starts: errors holds what the running task passed to onError
Task(a) == [a EXCEPT !.errors = <<>>]

Returned(call, value, cause, after) ==
    [call EXCEPT !.pc = "resolved", !.value = value, !.cause = cause,
                 !.reported = after.errors,
                 !.isRecording = after.state.isRecording,
                 !.hasRecording = after.state.recordedAudioBlob]

\* overlapping: the call was made while another call was waiting for getUserMedia
IdleStart ==
    [pc |-> "idle", value |-> FALSE, cause |-> "", reported |-> <<>>, isRecording |-> FALSE,
     hasRecording |-> FALSE, overlapping |-> FALSE]

\* a click on the record button: startButtonLoading disables the button, then
\* startRecording runs up to its await
StartRecording(k) ==
    LET clicked == [Task(audio) EXCEPT !.recordButtonDisabled = TRUE]
        call == [aStarts[k] EXCEPT
                    !.overlapping = \E j \in StartIds : aStarts[j].pc = "awaitGetUserMedia"]
    IN  /\ ~loggedOut
        /\ ~audio.recordButtonDisabled
        /\ aStarts[k].pc = "idle"
        /\ \A j \in StartIds : j < k => aStarts[j].pc # "idle"
        /\ IF ~audio.state.isSupported
           THEN /\ audio' = handleError(clicked, "NOT_SUPPORTED")
                /\ aStarts' = [aStarts EXCEPT ![k] =
                      Returned(call, FALSE, "unsupported", handleError(clicked, "NOT_SUPPORTED"))]
           ELSE IF audio.state.isRecording
           THEN /\ audio' = clicked
                /\ aStarts' = [aStarts EXCEPT ![k] = Returned(call, FALSE, "", clicked)]
           ELSE /\ audio' = clicked
                /\ aStarts' = [aStarts EXCEPT ![k] = [call EXCEPT !.pc = "awaitGetUserMedia"]]
        /\ UNCHANGED loggedOut
        /\ UNCHANGED notAudio

\* getUserMedia resolves with stream k; the MediaRecorder constructor or
\* start() may throw into the catch of startRecording
GetUserMediaResolves(k, outcome) ==
    LET obtained == [Task(audio) EXCEPT !.streams[k] = "live"]
        built == [obtained EXCEPT !.state.mediaRecorder = k, !.state.audioChunks = <<>>,
                                  !.state.isRecording = TRUE]
        after == CASE outcome = "recording" -> [built EXCEPT !.recorders[k] = "recording"]
                   [] outcome = "constructorThrows" -> handleError(obtained, "GENERIC_ERROR")
                   [] outcome = "startThrows" ->
                        handleError([built EXCEPT !.recorders[k] = "inactive"],
                                    errorType("NotSupportedError"))
    IN  /\ ~loggedOut
        /\ aStarts[k].pc = "awaitGetUserMedia"
        /\ audio' = after
        /\ aStarts' = [aStarts EXCEPT ![k] =
              IF outcome = "recording" THEN Returned(@, TRUE, "", after)
              ELSE Returned(@, FALSE, "device", after)]
        /\ UNCHANGED loggedOut
        /\ UNCHANGED notAudio

\* getUserMedia rejects with an error of the given name
GetUserMediaRejects(k, name) ==
    /\ ~loggedOut
    /\ aStarts[k].pc = "awaitGetUserMedia"
    /\ audio' = handleError(Task(audio), errorType(name))
    /\ aStarts' = [aStarts EXCEPT ![k] =
          Returned(@, FALSE, IF name = "NotAllowedError" THEN "denied" ELSE "device",
                   handleError(Task(audio), errorType(name)))]
    /\ UNCHANGED loggedOut
    /\ UNCHANGED notAudio

\* a timeslice of recorder r ends
DataAvailable(r, size) ==
    /\ ~loggedOut
    /\ audio.recorders[r] = "recording"
    /\ audio' = onDataAvailable(Task(audio), size)
    /\ UNCHANGED <<aStarts, loggedOut>>
    /\ UNCHANGED notAudio

\* a click on the stop button
StopRecording ==
    /\ ~loggedOut
    /\ audio' = stopRecording(Task(audio))
    /\ UNCHANGED <<aStarts, loggedOut>>
    /\ UNCHANGED notAudio

\* the events queued by stop() on recorder r: the last dataavailable, then stop
StopEvent(r, size) ==
    /\ ~loggedOut
    /\ audio.recorders[r] = "stopping"
    /\ audio' = onStop([onDataAvailable(Task(audio), size) EXCEPT !.recorders[r] = "inactive"],
                       r)
    /\ UNCHANGED <<aStarts, loggedOut>>
    /\ UNCHANGED notAudio

\* deleteRecording(), from the delete button or from onVideoChange; the READY
\* state change runs updateAudioUIInitial, which enables the record button
DeleteRecording ==
    /\ ~loggedOut
    /\ audio' = [reset(Task(audio)) EXCEPT !.recordButtonDisabled = FALSE]
    /\ UNCHANGED <<aStarts, loggedOut>>
    /\ UNCHANGED notAudio

\* handleLogout of the survey page: two local storage items are removed,
\* performAdditionalLogoutCleanup does nothing, the page leaves for index.html
HandleLogout ==
    /\ ~loggedOut
    /\ loggedOut' = TRUE
    /\ localStorageData' = <<>>
    /\ UNCHANGED <<audio, aStarts>>
    /\ UNCHANGED <<seqVars, retryVars, findVars, transformVars, partVars>>
    /\ UNCHANGED <<filteredData, oSheet, currentVideoName, onomatopoeiaInput, startDisplay,
                   endDisplay, hasRecording, saveLoading, saves, buttonStates>>
    /\ UNCHANGED extraVars

AudioOf(supported) ==
    [state |-> [mediaRecorder |-> NoRecorder, audioChunks |-> <<>>,
                recordedAudioBlob |-> FALSE, audioUrl |-> FALSE, isRecording |-> FALSE,
                isSupported |-> supported],
     streams |-> [k \in StartIds |-> "none"],
     recorders |-> [k \in StartIds |-> "none"],
     errors |-> <<>>,
     recordButtonDisabled |-> FALSE]

InitAudioIdle ==
    /\ audio = AudioOf(FALSE)
    /\ aStarts = [k \in StartIds |-> [IdleStart EXCEPT !.pc = "unused"]]
    /\ loggedOut = FALSE

\* the service after its constructor, in a browser with or without MediaRecorder
InitAudio ==
    /\ \E supported \in BOOLEAN : audio = AudioOf(supported)
    /\ aStarts = [k \in StartIds |-> IdleStart]
    /\ loggedOut = FALSE

(***************************************************************************)
(* BubblePositioner                                                        *)
(*                                                                         *)
(* Rectangles are in pixels.  A position's left and top are held in half   *)
(* pixels, so that targetRect.height / 2 and bubbleRect.height / 2 are     *)
(* exact: px(n) is n pixels as a count of half pixels.                     *)
(***************************************************************************)
\* the number of grid steps a target's corner is drawn from
MaxGrid == 3

px(n) == 2 * n

\* positionNear: defaultOptions
defaultOptions == [offset |-> 20, viewportPadding |-> 20]

\* the left and top of a target: on screen, or scrolled beyond the right or bottom edge
TargetEdges == {50 * i + 5 : i \in 0..MaxGrid}

TargetRects ==
    {[left |-> l, top |-> t, width |-> w, height |-> h, right |-> l + w, bottom |-> t + h] :
        l \in TargetEdges, t \in TargetEdges, w \in {20}, h \in {20, 51}}

Viewports == {[width |-> 200, height |-> 200]}

\* bubbles that fit beside a target, that fit the viewport only, and larger than the viewport
BubbleRects == {[width |-> w, height |-> h] : w \in {60, 150, 240}, h \in {60, 150, 240}}

\* getStepPositioningPreferences: the lists of the ten steps, and lists a caller may pass
PreferenceLists ==
    { <<"below", "right", "left", "above">>, <<"right", "left", "above", "below">>,
      <<"above", "below", "right", "left">>, <<"right", "left", "below", "above">>,
      <<"above", "right", "left", "below">>, <<"below">>, <<"center", "left">>,
      <<"center">>, <<>> }

StrategyNames == {"right", "left", "below", "above"}

\* the value undefined where a position is expected
undefinedPosition == [threw |-> FALSE, left |-> 0, top |-> 0, arrow |-> "undefined"]

\* the value of a call that threw a TypeError
Thrown == [threw |-> TRUE, left |-> 0, top |-> 0, arrow |-> "none"]

Position(left, top, arrow) == [threw |-> FALSE, left |-> left, top |-> top, arrow |-> arrow]

\* BubblePositioner.generatePositionStrategies
generatePositionStrategies(targetRect, bubbleRect, offset, preferences) ==
    LET strategies ==
            [right |-> Position(px(targetRect.right + offset),
                                px(targetRect.top) + targetRect.height - bubbleRect.height,
                                "arrow-left"),
             left  |-> Position(px(targetRect.left - bubbleRect.width - offset),
                                px(targetRect.top) + targetRect.height - bubbleRect.height,
                                "arrow-right"),
             below |-> Position(px(targetRect.left) + targetRect.width - bubbleRect.width,
                                px(targetRect.bottom + offset),
                                "arrow-top"),
             above |-> Position(px(targetRect.left) + targetRect.width - bubbleRect.width,
                                px(targetRect.top - bubbleRect.height - offset),
                                "arrow-bottom")]
        known == SelectSeq(preferences, LAMBDA pref : pref \in StrategyNames)
    IN  [i \in DOMAIN known |-> strategies[known[i]]]

\* the two tests of the loop of findBestPosition
fitsHorizontally(strategy, bubbleRect, viewportWidth, padding) ==
    /\ strategy.left >= px(padding)
    /\ strategy.left + px(bubbleRect.width) <= px(viewportWidth - padding)

fitsVertically(strategy, bubbleRect, viewportHeight, padding) ==
    /\ strategy.top >= px(padding)
    /\ strategy.top + px(bubbleRect.height) <= px(viewportHeight - padding)

Min(a, b) == IF a <= b THEN a ELSE b

Max(a, b) == IF a >= b THEN a ELSE b

\* BubblePositioner.constrainToViewport; position is undefined when no strategy was generated
constrainToViewport(position, bubbleRect, viewportWidth, viewportHeight, padding) ==
    IF position = undefinedPosition
    THEN Thrown
    ELSE Position(Max(px(padding), Min(position.left, px(viewportWidth - bubbleRect.width - padding))),
                  Max(px(padding), Min(position.top, px(viewportHeight - bubbleRect.height - padding))),
                  position.arrow)

\* BubblePositioner.findBestPosition, testing only the horizontal fit
findBestPosition_HorizontalOnly(strategies, bubbleRect, viewportWidth, viewportHeight, padding) ==
    LET fitting == {i \in DOMAIN strategies :
                       fitsHorizontally(strategies[i], bubbleRect, viewportWidth, padding)}
    IN  IF fitting # {}
        THEN strategies[CHOOSE i \in fitting : \A j \in fitting : i <= j]
        ELSE constrainToViewport(IF strategies # <<>> THEN strategies[1] ELSE undefinedPosition,
                                 bubbleRect, viewportWidth, viewportHeight, padding)

\* BubblePositioner.findBestPosition; strategies is an array, so strategies.right is undefined
findBestPosition(strategies, bubbleRect, viewportWidth, viewportHeight, padding) ==
    LET fitting == {i \in DOMAIN strategies :
                       /\ fitsHorizontally(strategies[i], bubbleRect, viewportWidth, padding)
                       /\ fitsVertically(strategies[i], bubbleRect, viewportHeight, padding)}
        fallbackStrategy == IF strategies # <<>> THEN strategies[1] ELSE undefinedPosition
    IN  IF fitting # {}
        THEN strategies[CHOOSE i \in fitting : \A j \in fitting : i <= j]
        ELSE constrainToViewport(fallbackStrategy, bubbleRect, viewportWidth, viewportHeight,
                                 padding)

Abs(n) == IF n >= 0 THEN n ELSE -n

\* BubblePositioner.calculateArrowDirection; the centres are in half pixels
calculateArrowDirection(bubblePosition, bubbleRect, targetCenterX, targetCenterY) ==
    LET deltaX == bubblePosition.left + bubbleRect.width - targetCenterX
        deltaY == bubblePosition.top + bubbleRect.height - targetCenterY
    IN  IF Abs(deltaX) > Abs(deltaY)
        THEN (IF deltaX > 0 THEN "arrow-left" ELSE "arrow-right")
        ELSE (IF deltaY > 0 THEN "arrow-top" ELSE "arrow-bottom")

\* BubblePositioner.performPositioning: the position applied to the bubble and the arrow
performPositioning(targetRect, bubbleRect, viewport, preferences, config) ==
    LET positionStrategies ==
            generatePositionStrategies(targetRect, bubbleRect, config.offset, preferences)
        bestPosition ==
            findBestPosition(positionStrategies, bubbleRect, viewport.width, viewport.height,
                             config.viewportPadding)
    IN  IF bestPosition.threw
        THEN Thrown
        ELSE [bestPosition EXCEPT
                !.arrow = calculateArrowDirection(bestPosition, bubbleRect,
                              px(targetRect.left) + targetRect.width,
                              px(targetRect.top) + targetRect.height)]

\* BubblePositioner.positionNear(bubble, target, preferences): the promise settles
PositionNear ==
    /\ ~bDone
    /\ bResult' = performPositioning(bTarget, bBubble, bViewport, bPreferences, defaultOptions)
    /\ bDone' = TRUE
    /\ UNCHANGED <<bTarget, bBubble, bViewport, bPreferences>>
    /\ UNCHANGED notBubble

InitBubbleIdle ==
    /\ bTarget = [left |-> 0, top |-> 0, width |-> 0, height |-> 0, right |-> 0, bottom |-> 0]
    /\ bBubble = [width |-> 0, height |-> 0]
    /\ bViewport = [width |-> 0, height |-> 0]
    /\ bPreferences = <<>>
    /\ bResult = Thrown
    /\ bDone = TRUE

InitBubble ==
    /\ bTarget \in TargetRects
    /\ bBubble \in BubbleRects
    /\ bViewport \in Viewports
    /\ bPreferences \in PreferenceLists
    /\ bResult = Thrown
    /\ bDone = FALSE

(***************************************************************************)
(* ModalManager                                                            *)
(***************************************************************************)
\* the number of showModal calls, and of hideModal calls, in one behaviour
MaxShows == 3

MaxHides == 3

\* the ids of the modal elements of the page
ModalIds == {"tutorialWelcome", "tutorialCompletion"}

ShowIds == 1..MaxShows

HideIds == 1..MaxHides

\* activeModals.get(modalId) when the map has no entry
NoModalData == [show |-> 0, onClose |-> FALSE]

IdleHide == [pc |-> "idle", modalId |-> "", modalData |-> NoModalData]

\* ModalManager.isModalActive
isModalActive(modalId) == activeModals[modalId] # NoModalData

\* ModalManager.hasActiveModals
hasActiveModals == Len(modalStack) > 0

\* Array.prototype.indexOf, 0 when the id is not in the stack
indexOf(stack, modalId) ==
    IF \E i \in DOMAIN stack : stack[i] = modalId
    THEN CHOOSE i \in DOMAIN stack :
            stack[i] = modalId /\ \A j \in 1..(i - 1) : stack[j] # modalId
    ELSE 0

\* Array.prototype.splice(index, 1)
splice(stack, index) ==
    [i \in 1..(Len(stack) - 1) |-> IF i < index THEN stack[i] ELSE stack[i + 1]]

\* ModalManager.cleanupModal: what is left of modalStack
cleanupStack(stack, modalId) ==
    LET stackIndex == indexOf(stack, modalId)
    IN  IF stackIndex > 0 THEN splice(stack, stackIndex) ELSE stack

\* ModalManager.showModal(modalId, options) for an element of the page
ShowModal(modalId, withOnClose) ==
    /\ shows < MaxShows
    /\ shows' = shows + 1
    /\ activeModals' = [activeModals EXCEPT ![modalId] =
                            [show |-> shows + 1, onClose |-> withOnClose]]
    /\ modalStack' = Append(modalStack, modalId)
    /\ UNCHANGED <<hideCalls, onCloseRuns>>
    /\ UNCHANGED notModal

\* the start of hideModal(modalId): resolved at once, or waiting for animateModalOut
StartHide(h, modalId) ==
    /\ hideCalls[h].pc = "idle"
    /\ \A j \in 1..(h - 1) : hideCalls[j].pc # "idle"
    /\ hideCalls' = [hideCalls EXCEPT ![h] =
                        [pc |-> IF isModalActive(modalId) THEN "animating" ELSE "resolved",
                         modalId |-> modalId,
                         modalData |-> activeModals[modalId]]]
    /\ UNCHANGED <<activeModals, modalStack, onCloseRuns, shows>>
    /\ UNCHANGED notModal

\* ModalManager.hideModal(modalId, result), called by the page or by a button of the modal
HideModal(h, modalId) == StartHide(h, modalId)

\* ModalManager.hideTopModal, and the Escape key with closeOnEscape
HideTopModal(h) ==
    /\ Len(modalStack) > 0
    /\ StartHide(h, modalStack[Len(modalStack)])

\* hideModal after `await this.animateModalOut`: cleanupModal, then onClose
AnimationEnds(h) ==
    /\ hideCalls[h].pc = "animating"
    /\ activeModals' = [activeModals EXCEPT ![hideCalls[h].modalId] = NoModalData]
    /\ modalStack' = cleanupStack(modalStack, hideCalls[h].modalId)
    /\ onCloseRuns' =
          IF hideCalls[h].modalData.onClose
          THEN [onCloseRuns EXCEPT ![hideCalls[h].modalData.show] = @ + 1]
          ELSE onCloseRuns
    /\ hideCalls' = [hideCalls EXCEPT ![h].pc = "resolved"]
    /\ UNCHANGED shows
    /\ UNCHANGED notModal

\* ModalManager.constructor
InitModal ==
    /\ activeModals = [id \in ModalIds |-> NoModalData]
    /\ modalStack = <<>>
    /\ hideCalls = [h \in HideIds |-> IdleHide]
    /\ onCloseRuns = [k \in ShowIds |-> 0]
    /\ shows = 0

InitModalIdle ==
    /\ activeModals = [id \in ModalIds |-> NoModalData]
    /\ modalStack = <<>>
    /\ hideCalls = [h \in HideIds |-> [IdleHide EXCEPT !.pc = "unused"]]
    /\ onCloseRuns = [k \in ShowIds |-> 0]
    /\ shows = MaxShows

(***************************************************************************)
(* Local storage across the pages of one browser                           *)
(***************************************************************************)
\* the number of participants who use the browser one after the other
MaxParticipants == 3

StorageKeys == {"participantInfo", "filteredData", "reasoningData", "surveyCompleted"}

Pages == {"index", "survey", "tutorial", "reasoning"}

\* localStorage.getItem(key) === null
NoItem == 0

\* localStorage.removeItem for each key of a set
removeItems(store, keys) == [k \in StorageKeys |-> IF k \in keys THEN NoItem ELSE store[k]]

\* localStorage.setItem for each key of a set, by the participant using the browser
setItems(store, keys, by) == [k \in StorageKeys |-> IF k \in keys THEN by ELSE store[k]]

\* performAdditionalLogoutCleanup of SurveyApp, TutorialApp and ReasoningApp
performAdditionalLogoutCleanup(store, onPage) ==
    IF onPage = "reasoning"
    THEN removeItems(store, {"reasoningData", "surveyCompleted"})
    ELSE store

\* BaseApp.handleLogout: what is left in local storage
handleLogout(store, onPage) ==
    performAdditionalLogoutCleanup(removeItems(store, {"participantInfo", "filteredData"}),
                                   onPage)

\* the page shown after the browser opens a page and its initializeSubclass has run
landingPage(store, target, hasDescriptions) ==
    CASE target = "index" -> "index"
      [] target \in {"survey", "tutorial"} ->
            IF store["participantInfo"] = NoItem THEN "index" ELSE target
      [] target = "reasoning" ->
            IF store["surveyCompleted"] = NoItem
            THEN (IF store["participantInfo"] = NoItem THEN "index" ELSE "survey")
            ELSE IF store["participantInfo"] = NoItem THEN "index"
            ELSE IF store["filteredData"] = NoItem \/ ~hasDescriptions
                 THEN "survey"
            ELSE "reasoning"

\* IndexApp: a participant signs in or registers; the page goes to survey.html
SignIn ==
    /\ page = "index"
    /\ participant < MaxParticipants
    /\ participant' = participant + 1
    /\ storage' = setItems(storage, {"participantInfo", "filteredData"}, participant + 1)
    /\ page' = "survey"
    /\ pageOp' = "signIn"
    /\ UNCHANGED notSession

\* the browser opens a page by its address, a link or the back button
OpenPage(target, hasDescriptions) ==
    /\ page' = landingPage(storage, target, hasDescriptions)
    /\ storage' =
          IF page' = "reasoning"
          THEN setItems(storage, {"reasoningData"}, participant)
          ELSE storage
    /\ pageOp' = "open"
    /\ UNCHANGED participant
    /\ UNCHANGED notSession

\* SurveyApp.stayOnSurveyPage
StayOnSurveyPage ==
    /\ page = "survey"
    /\ storage' = setItems(storage, {"surveyCompleted"}, participant)
    /\ pageOp' = "stay"
    /\ UNCHANGED <<page, participant>>
    /\ UNCHANGED notSession

\* SurveyApp.goToReasoningPage and startReasoningPhase, then ReasoningApp.initializeSubclass
GoToReasoningPage(hasDescriptions) ==
    /\ page = "survey"
    /\ LET marked == setItems(storage, {"surveyCompleted"}, participant)
       IN  /\ page' = landingPage(marked, "reasoning", hasDescriptions)
           /\ storage' =
                 IF page' = "reasoning"
                 THEN setItems(marked, {"reasoningData"}, participant)
                 ELSE marked
    /\ pageOp' = "continue"
    /\ UNCHANGED participant
    /\ UNCHANGED notSession

\* the logout button of the survey, tutorial or reasoning page
Logout ==
    /\ page \in {"survey", "tutorial", "reasoning"}
    /\ storage' = handleLogout(storage, page)
    /\ page' = "index"
    /\ pageOp' = "logout"
    /\ UNCHANGED participant
    /\ UNCHANGED notSession

\* a browser with empty local storage on index.html
InitSession ==
    /\ page = "index"
    /\ storage = [k \in StorageKeys |-> NoItem]
    /\ participant = 0
    /\ pageOp = "none"

InitSessionIdle ==
    /\ page = "closed"
    /\ storage = [k \in StorageKeys |-> NoItem]
    /\ participant = MaxParticipants
    /\ pageOp = "none"

(***************************************************************************)
(* ReasoningApp                                                            *)
(***************************************************************************)
\* the number of saveReasoning calls in one behaviour
MaxReasonings == 3

\* a description as the survey stored it in filteredData
Description(video, movement, startTime, endTime) ==
    [participantId |-> participantInfo.participantId,
     participantName |-> or(participantInfo.name, participantInfo.email),
     video |-> Str(video), movement |-> Str(movement),
     startTime |-> Num(startTime), endTime |-> Num(endTime)]

\* the descriptions of the page: two of one video with equal times, one of another video
DescriptionLists ==
    { <<Description("1.mp4", "doki", 50, 123), Description("1.mp4", "zun", 50, 123)>>,
      <<Description("1.mp4", "doki", 50, 123), Description("2.mp4", "doki", 50, 123)>>,
      <<Description("1.mp4", "doki", 50, 123), Description("1.mp4", "zun", 50, 123),
        Description("2.mp4", "doki", 50, 123)>> }

\* the texts typed: one shorter than five characters
ReasoningTexts == {"abc", "heavy", "quick"}

\* parseFloat of a number or of a decimal text
parseFloatOf(v) == IF v.t = "number" THEN v ELSE parseFloat(v)

\* x === y
strictEquals(x, y) == x = y /\ x # NaN

\* saveReasoning: the reasoningEntry built from the item and the text
reasoningEntry(onomatopoeiaItem, reasoningText) ==
    [participantId |-> participantInfo.participantId,
     participantName |-> or(participantInfo.name, participantInfo.email),
     video |-> prop(onomatopoeiaItem, "video"),
     onomatopoeia |-> prop(onomatopoeiaItem, "onomatopoeia"),
     startTime |-> prop(onomatopoeiaItem, "startTime"),
     endTime |-> prop(onomatopoeiaItem, "endTime"),
     reasoning |-> Str(reasoningText),
     answeredTimestamp |-> obtainDate]

\* the test of findIndex in saveReasoning
sameReasoning(item, entry) ==
    /\ looseEquals(prop(item, "participantId"), prop(entry, "participantId"))
    /\ strictEquals(prop(item, "video"), prop(entry, "video"))
    /\ strictEquals(prop(item, "onomatopoeia"), prop(entry, "onomatopoeia"))
    /\ strictEquals(parseFloatOf(prop(item, "startTime")), parseFloatOf(prop(entry, "startTime")))
    /\ strictEquals(parseFloatOf(prop(item, "endTime")), parseFloatOf(prop(entry, "endTime")))

\* Array.prototype.findIndex, 0 when no element passes
findIndex(data, entry) ==
    IF \E i \in DOMAIN data : sameReasoning(data[i], entry)
    THEN CHOOSE i \in DOMAIN data :
            sameReasoning(data[i], entry) /\ \A j \in 1..(i - 1) : ~sameReasoning(data[j], entry)
    ELSE 0

\* saveReasoningToSheet: googleSheetsService has no method updateReasoning, the
\* TypeError of the call is caught and the sheet is left as it is
saveReasoningToSheet(sheet, entry) == sheet

\* ReasoningApp.saveReasoning(onomatopoeiaItem, reasoningText) for the item of slide i
SaveReasoning(i, reasoningText) ==
    /\ rCount < MaxReasonings
    /\ rCount' = rCount + 1
    /\ IF Len(reasoningText) < 5
       THEN /\ rLast' = [index |-> i, text |-> reasoningText,
                         message |-> "reasoning.error_min_characters",
                         progress |-> rLast.progress]
            /\ UNCHANGED <<rSheet, reasoningData, rStored, rOwner, rGiven>>
       ELSE LET entry == reasoningEntry(rEntries[i], reasoningText)
                existingIndex == findIndex(reasoningData, entry)
                updated == IF existingIndex > 0
                           THEN [reasoningData EXCEPT ![existingIndex] = entry]
                           ELSE Append(reasoningData, entry)
            IN  /\ rSheet' = saveReasoningToSheet(rSheet, entry)
                /\ reasoningData' = updated
                /\ rStored' = jsonArray(updated)
                /\ rOwner' = IF existingIndex > 0
                             THEN [rOwner EXCEPT ![existingIndex] = i]
                             ELSE Append(rOwner, i)
                /\ rGiven' = [rGiven EXCEPT ![i] = reasoningText]
                /\ rLast' = [index |-> i, text |-> reasoningText,
                             message |-> "reasoning.success_saved",
                             progress |-> Len(updated)]
    /\ UNCHANGED rEntries
    /\ UNCHANGED notReason

NoReasoningCall == [index |-> 0, text |-> "", message |-> "", progress |-> 0]

\* the reasoning page after initializeSubclass, with no reasoning given yet
InitReasoning ==
    /\ rEntries \in DescriptionLists
    /\ rSheet = [i \in DOMAIN rEntries |-> rEntries[i]]
    /\ reasoningData = <<>>
    /\ rStored = <<>>
    /\ rOwner = <<>>
    /\ rGiven = [i \in DOMAIN rEntries |-> ""]
    /\ rLast = NoReasoningCall
    /\ rCount = 0

InitReasoningIdle ==
    /\ rEntries = <<>>
    /\ rSheet = <<>>
    /\ reasoningData = <<>>
    /\ rStored = <<>>
    /\ rOwner = <<>>
    /\ rGiven = <<>>
    /\ rLast = NoReasoningCall
    /\ rCount = MaxReasonings

InitExtraIdle ==
    InitBubbleIdle /\ InitModalIdle /\ InitSessionIdle /\ InitReasoningIdle

InitCoreIdle ==
    /\ InitSequencer /\ InitRetry /\ InitFindIdle /\ InitTransformIdle
    /\ InitParticipantsIdle /\ InitSurveyIdle /\ InitAudioIdle

Init ==
    /\ InitSequencer /\ InitRetry /\ InitFindIdle /\ InitTransformIdle
    /\ InitParticipantsIdle /\ InitSurveyIdle /\ InitAudioIdle
    /\ InitExtraIdle

Next ==
    \/ NextStep
    \/ PreviousStep
    \/ Listeners
    \/ Advance
    \/ GoBack
    \/ MarkActionCompleted

Spec == Init /\ [][Next]_vars

NextRetry ==
    \/ \E c \in CallIds : WithRetry(c)
    \/ \E c \in CallIds : OpResolve(c)
    \/ \E c \in CallIds : OpReject(c)
    \/ \E c \in CallIds : DelayElapsed(c)

SpecRetry == Init /\ [][NextRetry]_vars

InitFindRows ==
    /\ InitSequencer /\ InitRetry /\ InitFind /\ InitTransformIdle
    /\ InitParticipantsIdle /\ InitSurveyIdle /\ InitAudioIdle
    /\ InitExtraIdle

NextFind == Find

SpecFind == InitFindRows /\ [][NextFind]_vars

InitTransformCalls ==
    /\ InitSequencer /\ InitRetry /\ InitFindIdle /\ InitTransform
    /\ InitParticipantsIdle /\ InitSurveyIdle /\ InitAudioIdle
    /\ InitExtraIdle

NextTransform == Transform

SpecTransform == InitTransformCalls /\ [][NextTransform]_vars

InitRegister ==
    /\ InitSequencer /\ InitRetry /\ InitFindIdle /\ InitTransformIdle
    /\ InitParticipants /\ InitSurveyIdle /\ InitAudioIdle
    /\ InitExtraIdle

NextRegister ==
    \/ \E r \in Registrations : HandleParticipantSubmit(r)
    \/ \E r \in Registrations : GetSheetDataResolves(r)
    \/ \E r \in Registrations : GetSheetDataRejects(r)
    \/ \E r \in Registrations : AppendResolves(r)
    \/ \E r \in Registrations : AppendRejects(r)

SpecRegister == InitRegister /\ [][NextRegister]_vars

InitSurveyPage ==
    /\ InitSequencer /\ InitRetry /\ InitFindIdle /\ InitTransformIdle
    /\ InitParticipantsIdle /\ InitSurvey /\ InitAudioIdle
    /\ InitExtraIdle

NextSurvey ==
    \/ \E v \in DOMAIN VideoNames : OnVideoChange(v)
    \/ \E text \in InputTexts : TypeOnomatopoeia(text)
    \/ \E ms \in Positions : CaptureStartTime(ms)
    \/ \E ms \in Positions : CaptureEndTime(ms)
    \/ RecordAudio
    \/ \E c \in SaveIds : HandleNoOnomatopoeia(c)
    \/ \E c \in SaveIds : HandleSaveOnomatopoeia(c)
    \/ \E c \in SaveIds : UploadResolves(c)
    \/ \E c \in SaveIds : UploadRejects(c)
    \/ \E c \in SaveIds : SaveAppendResolves(c)
    \/ \E c \in SaveIds : SaveAppendRejects(c)

SpecSurvey == InitSurveyPage /\ [][NextSurvey]_vars

\* the survey page on which the participant never picks a video by hand
NextSave ==
    \/ \E text \in InputTexts : TypeOnomatopoeia(text)
    \/ \E ms \in Positions : CaptureStartTime(ms)
    \/ \E ms \in Positions : CaptureEndTime(ms)
    \/ RecordAudio
    \/ \E c \in SaveIds : HandleNoOnomatopoeia(c)
    \/ \E c \in SaveIds : HandleSaveOnomatopoeia(c)
    \/ \E c \in SaveIds : UploadResolves(c)
    \/ \E c \in SaveIds : UploadRejects(c)
    \/ \E c \in SaveIds : SaveAppendResolves(c)
    \/ \E c \in SaveIds : SaveAppendRejects(c)

SpecSave == InitSurveyPage /\ [][NextSave]_vars

InitRecording ==
    /\ InitSequencer /\ InitRetry /\ InitFindIdle /\ InitTransformIdle
    /\ InitParticipantsIdle /\ InitSurveyIdle /\ InitAudio
    /\ InitExtraIdle

NextAudio ==
    \/ \E k \in StartIds : StartRecording(k)
    \/ \E k \in StartIds, outcome \in {"recording", "constructorThrows", "startThrows"} :
          GetUserMediaResolves(k, outcome)
    \/ \E k \in StartIds, name \in {"NotAllowedError", "NotFoundError"} :
          GetUserMediaRejects(k, name)
    \/ \E r \in StartIds, size \in ChunkSizes : DataAvailable(r, size)
    \/ StopRecording
    \/ \E r \in StartIds, size \in ChunkSizes : StopEvent(r, size)
    \/ DeleteRecording
    \/ HandleLogout

SpecAudio == InitRecording /\ [][NextAudio]_vars

InitPositioner == InitCoreIdle /\ InitBubble /\ InitModalIdle /\ InitSessionIdle /\ InitReasoningIdle

NextBubble == PositionNear

SpecBubble == InitPositioner /\ [][NextBubble]_vars

InitModals == InitCoreIdle /\ InitBubbleIdle /\ InitModal /\ InitSessionIdle /\ InitReasoningIdle

NextModal ==
    \/ \E id \in ModalIds, withOnClose \in BOOLEAN : ShowModal(id, withOnClose)
    \/ \E h \in HideIds, id \in ModalIds : HideModal(h, id)
    \/ \E h \in HideIds : HideTopModal(h)
    \/ \E h \in HideIds : AnimationEnds(h)

SpecModal == InitModals /\ [][NextModal]_vars

InitBrowser == InitCoreIdle /\ InitBubbleIdle /\ InitModalIdle /\ InitSession /\ InitReasoningIdle

NextSession ==
    \/ SignIn
    \/ \E target \in Pages, hasDescriptions \in BOOLEAN : OpenPage(target, hasDescriptions)
    \/ StayOnSurveyPage
    \/ \E hasDescriptions \in BOOLEAN : GoToReasoningPage(hasDescriptions)
    \/ Logout

SpecSession == InitBrowser /\ [][NextSession]_vars

InitReasoningPage ==
    InitCoreIdle /\ InitBubbleIdle /\ InitModalIdle /\ InitSessionIdle /\ InitReasoning

NextReasoning ==
    \E i \in DOMAIN rEntries, text \in ReasoningTexts : SaveReasoning(i, text)

SpecReasoning == InitReasoningPage /\ [][NextReasoning]_vars

(***************************************************************************)
(* Claims on the step sequencer                                            *)
(***************************************************************************)

RequiredSteps == {s \in Steps : stepConfigs[s].required}

AdvanceFromRequired ==
    /\ lastOp.op = "advance"
    /\ lastOp.from \in RequiredSteps

\* C1: advance() from a required step whose validation flag is not set returns
\* false, leaves currentStep and every flag as they were and, when the
\* required-action callback was passed, invokes it with that step's message;
\* with the flag set, advance() from that step moves to currentStep + 1.
C1_RequiredGate ==
    AdvanceFromRequired =>
        LET key == stepConfigs[lastOp.from].validation IN
        IF ~lastOp.prev[key]
        THEN /\ lastOp.ret = "false"
             /\ currentStep = lastOp.from
             /\ stepValidation = lastOp.prev
             /\ lastOp.onAdvance = 0
             /\ lastOp.hasCb => lastOp.onRequiredAction = requiredActionMessages[lastOp.from]
        ELSE /\ lastOp.ret = "true"
             /\ currentStep = lastOp.from + 1
             /\ lastOp.onRequiredAction = NoMessage

C1_Witness ==
    /\ AdvanceFromRequired
    /\ lastOp.from = 4
    /\ ~lastOp.prev["clicked_yes"]
    /\ lastOp.hasCb
    /\ lastOp.ret = "false"
    /\ lastOp.onRequiredAction = "Please click the 'Yes' button to continue."

MarkOfAutoAdvanceKey ==
    /\ lastOp.op = "markActionCompleted"
    /\ stepConfigs[lastOp.from].autoAdvance
    /\ lastOp.action = stepConfigs[lastOp.from].validation

\* C2 as stated: marking the validation key of an autoAdvance step sets the flag
\* and advances currentStep by one, whoever the caller is.
C2_MarkAdvances ==
    MarkOfAutoAdvanceKey =>
        /\ stepValidation[lastOp.action]
        /\ currentStep = lastOp.from + 1

\* C2 amended: marking the validation key of an autoAdvance step sets the flag
\* and invokes the onAutoAdvance callback when one was passed; currentStep moves
\* by one through that callback (checkStepValidation's calls nextStep) and stays
\* where it was when markActionCompleted was called without the callback.
C2_MarkInvokesAutoAdvance ==
    MarkOfAutoAdvanceKey =>
        /\ stepValidation[lastOp.action]
        /\ lastOp.onAutoAdvance = lastOp.hasCb
        /\ lastOp.hasCb => currentStep = lastOp.from + 1 /\ lastOp.onAdvance = currentStep
        /\ ~lastOp.hasCb => currentStep = lastOp.from

C2_Witness ==
    /\ MarkOfAutoAdvanceKey
    /\ lastOp.hasCb
    /\ lastOp.from = 2
    /\ ~lastOp.prev["video_played"]
    /\ currentStep = 3

\* C3: a flag never goes from true to false; the flags change only in
\* markActionCompleted with a tracked key, which sets that one flag; advance and
\* goBack leave them alone and an untracked action changes nothing.
C3_FlagsOnlySet ==
    /\ \A k \in ValidationKeys : lastOp.prev[k] => stepValidation[k]
    /\ lastOp.op \in {"advance", "goBack"} => stepValidation = lastOp.prev
    /\ lastOp.op = "markActionCompleted" /\ lastOp.action \in ValidationKeys =>
           stepValidation = [lastOp.prev EXCEPT ![lastOp.action] = TRUE]
    /\ lastOp.op = "markActionCompleted" /\ lastOp.action \notin ValidationKeys =>
           stepValidation = lastOp.prev /\ currentStep = lastOp.from

C3_Witness ==
    /\ lastOp.op = "goBack"
    /\ lastOp.ret = "true"
    /\ lastOp.from = 5
    /\ stepValidation["video_played"] /\ stepValidation["clicked_yes"]

\* C4: 1 <= currentStep <= N; an advance that returns true raises currentStep by
\* exactly 1, a goBack that returns true lowers it by exactly 1, one that returns
\* false leaves it; advance at step N and goBack at step 1 return false.
C4_StepRange ==
    /\ currentStep \in 1..totalSteps
    /\ lastOp.op = "advance" =>
          /\ lastOp.ret = "true" => currentStep = lastOp.from + 1
          /\ lastOp.ret = "false" => currentStep = lastOp.from
          /\ lastOp.from = totalSteps => lastOp.ret = "false"
    /\ lastOp.op = "goBack" =>
          /\ lastOp.ret = "true" => currentStep = lastOp.from - 1
          /\ lastOp.ret = "false" => currentStep = lastOp.from
          /\ lastOp.from = 1 => lastOp.ret = "false"

C4_Witness ==
    /\ lastOp.op = "advance"
    /\ lastOp.from = totalSteps
    /\ lastOp.ret = "false"
    /\ currentStep = totalSteps

(***************************************************************************)
(* Claims on the retry policy                                              *)
(***************************************************************************)

\* C5: one withRetry call invokes its operation at most 3 times; it stops at the
\* first attempt that succeeds and returns that attempt's value, so a call
\* resolved after two failures has invoked the operation exactly 3 times.
C5_AtMostThreeAttempts ==
    \A c \in CallIds :
        LET cl == calls[c] IN
        /\ cl.invocations <= 3
        /\ cl.pc = "resolved" =>
              /\ cl.invocations = cl.failures + 1
              /\ cl.result = operation(cl.kind, cl.lastWire).value
              /\ operation(cl.kind, cl.lastWire).ok
        /\ cl.pc = "rejected" => cl.invocations = 3 /\ cl.failures = 3
        /\ cl.pc \in {"resolved", "rejected"} => cl.inflight = 0

C5_Witness ==
    \E c \in CallIds :
        /\ calls[c].pc = "resolved"
        /\ calls[c].failures = 2
        /\ calls[c].invocations = 3
        /\ calls[c].result = "result"

\* C6: the wait after failed attempt k (k = 1, 2) is k x 1000 ms; there is no
\* wait after a success and none after the 3rd failure.
C6_LinearBackoff ==
    \A c \in CallIds :
        LET cl == calls[c] IN
        /\ \A k \in 1..Len(cl.waits) : cl.waits[k] = k * 1000
        /\ Len(cl.waits) = IF cl.failures < 3 THEN cl.failures ELSE 2
        /\ cl.pc = "awaitDelay" => Len(cl.waits) = cl.attempt /\ cl.elapsed = cl.attempt - 1

C6_Witness ==
    \E c \in CallIds :
        /\ calls[c].pc = "rejected"
        /\ calls[c].waits = <<1000, 2000>>

\* C7 as stated: a call whose 3 attempts failed rejects with the error of the 3rd
\* attempt, and that error carries the operation's context string.
C7_LastErrorTagged ==
    \A c \in CallIds :
        calls[c].pc = "rejected" =>
            /\ calls[c].thrown.raisedBy = 3
            /\ calls[c].thrown.context = Context(calls[c].kind)

\* C7 amended: a call whose 3 attempts failed rejects with the error object of the
\* 3rd attempt as the operation raised it (no context added); the context string
\* goes to the console only, in the final console.error line.
C7_LastErrorUntagged ==
    \A c \in CallIds :
        LET cl == calls[c] IN
        cl.pc = "rejected" =>
            /\ cl.thrown = Error(operation(cl.kind, cl.lastWire).message, 3)
            /\ cl.thrown.context = NoContext
            /\ cl.consoleError = Context(cl.kind)
            /\ cl.warned = 3

C7_Witness ==
    \E c \in CallIds :
        /\ calls[c].pc = "rejected"
        /\ calls[c].thrown.raisedBy = 3
        /\ calls[c].thrown.message = "Sheets API error"
        /\ calls[c].lastWire = "ok_error_body"

\* C8: a call has at most one attempt in flight; attempt k+1 is in flight only
\* after k attempts have failed and k backoff waits have elapsed, whatever the
\* other calls are doing.
C8_SequentialAttempts ==
    \A c \in CallIds :
        LET cl == calls[c] IN
        /\ cl.inflight <= 1
        /\ cl.inflight = 1 <=> cl.pc = "awaitOp"
        /\ cl.pc = "awaitOp" =>
              /\ cl.invocations = cl.attempt
              /\ cl.failures = cl.attempt - 1
              /\ cl.elapsed = cl.attempt - 1
              /\ Len(cl.waits) = cl.attempt - 1

C8_Witness ==
    /\ calls[1].pc = "awaitOp" /\ calls[1].attempt = 3
    /\ calls[2].pc = "awaitDelay" /\ calls[2].attempt = 1

\* C9 as stated: for each of the four operations, an attempt that met a non-2xx
\* response or a 2xx response with an error body is a failed attempt, never the
\* attempt whose value withRetry returns.
C9_ErrorBodyIsFailure ==
    \A c \in CallIds :
        calls[c].pc = "resolved" => calls[c].lastWire = "ok"

(***************************************************************************)
(* Claims on the row finder                                                *)
(***************************************************************************)

\* a literal matches by coercive equality, without regard to case when both
\* values are strings; a predicate decides on (cell, row, i)
C10_Matches(matcher, row, col, i) ==
    LET cell == IF col < Len(row) THEN row[col + 1] ELSE Undefined IN
    CASE matcher.t = "function" ->
             callPredicate(matcher, cell, row, i)
      [] matcher.t = "string" ->
             cell.t = "string" /\ cell.s \in (IF matcher.s \in {"a", "A"} THEN {"a", "A"} ELSE {matcher.s})
      [] OTHER ->
             cell.t = "string" /\ cell.s = "1" /\ matcher.n = 1

C10_MatchingIndices ==
    {i \in 1..(Len(fData) - 1) :
        \A col \in DOMAIN fCriteria : C10_Matches(fCriteria[col], fData[i + 1], col, i)}

\* C10: findRows returns exactly the pairs {rowIndex: i, data: rows[i]} of the
\* indices i >= 1 at which every criterion matches, in ascending i, never row 0;
\* findRow returns the first of them, or null when there is none.
C10_FindRowsExact ==
    fDone =>
        /\ {fResults[k].rowIndex : k \in DOMAIN fResults} = C10_MatchingIndices
        /\ \A k \in DOMAIN fResults :
              /\ fResults[k].rowIndex >= 1
              /\ fResults[k].data = fData[fResults[k].rowIndex + 1]
        /\ \A j, k \in DOMAIN fResults : j < k => fResults[j].rowIndex < fResults[k].rowIndex
        /\ fFirst = IF C10_MatchingIndices = {} THEN Null ELSE fResults[1]

C10_Witness ==
    /\ fDone
    /\ fData = <<<<Str("a")>>, <<Str("A")>>, <<Str("1")>>>>
    /\ fCriteria = (0 :> Str("a"))
    /\ fResults = <<[rowIndex |-> 1, data |-> <<Str("A")>>]>>
    /\ fFirst = [rowIndex |-> 1, data |-> <<Str("A")>>]

(***************************************************************************)
(* Claims on the row mapper                                                *)
(***************************************************************************)

\* C11: for a mapping with unique column indices and an object whose keys are
\* keys of the mapping, turning the object into a row and the row back gives
\* the object's value on every key of the mapping the object has and undefined
\* on the keys it lacks; the row has max(index) + 1 elements.
C11_RoundTrip ==
    tDone /\ tMap # <<>> =>
        /\ DOMAIN tBack = DOMAIN tMap
        /\ \A key \in DOMAIN tMap :
              tBack[key] = IF key \in DOMAIN tObj THEN tObj[key] ELSE Undefined
        /\ \A key \in DOMAIN tMap : Len(tRow) >= tMap[key] + 1
        /\ \E key \in DOMAIN tMap : Len(tRow) = tMap[key] + 1

C11_Witness ==
    /\ tDone
    /\ tMap = [participantId |-> 3, email |-> 0, name |-> 1]
    /\ tObj = [participantId |-> Num(1), name |-> Str("a")]
    /\ tRow = <<Undefined, Str("a"), Undefined, Num(1)>>
    /\ tBack = [participantId |-> Num(1), email |-> Undefined, name |-> Str("a")]

(***************************************************************************)
(* Claims on the registration of participants                              *)
(***************************************************************************)

\* the numeric IDs in column 0 of the rows after the header
NumericIds(data) ==
    {n \in DOMAIN DigitStrings :
        \E i \in 2..Len(data) : cellAt(data[i], 0) = Str(DigitStrings[n])}

LargestId(data) ==
    IF NumericIds(data) = {} THEN 0
    ELSE CHOOSE n \in NumericIds(data) : \A k \in NumericIds(data) : k <= n

\* C12: a saveNewParticipant that has returned read the sheet, appended exactly
\* one row whose column 0 is 1 + the largest numeric ID of the rows it read
\* after the header (1 when there is none) and whose column 6 is the
\* registrationTimestamp, and returned a record with that same ID; one that
\* has not returned has appended nothing.
C12_NextIdAppendedOnce ==
    \A r \in Registrations :
        /\ reg[r].pc = "done" =>
              /\ Len(reg[r].appended) = 1
              /\ cellAt(reg[r].appended[1], 0) = Num(LargestId(reg[r].data) + 1)
              /\ cellAt(reg[r].appended[1], 6) = obtainDate
              /\ reg[r].returned.participantId = cellAt(reg[r].appended[1], 0)
              /\ reg[r].returned.registrationTimestamp = obtainDate
              /\ \E i \in DOMAIN pSheet : pSheet[i] = storedRow(reg[r].appended[1])
        /\ reg[r].pc # "done" => reg[r].appended = <<>>

C12_Witness ==
    /\ reg[1].pc = "done"
    /\ reg[1].data = <<HeaderRow, ExistingRow("2"), ExistingRow("1")>>
    /\ cellAt(reg[1].appended[1], 0) = Num(3)
    /\ reg[1].returned.participantId = Num(3)

\* C13: any two registrations that appended a row appended rows with
\* different participantId values, whatever the interleaving of their reads
\* and appends.
C13_UniqueIds ==
    \A r1, r2 \in Registrations :
        (r1 # r2 /\ reg[r1].pc = "done" /\ reg[r2].pc = "done") =>
            cellAt(reg[r1].appended[1], 0) # cellAt(reg[r2].appended[1], 0)

(***************************************************************************)
(* Claims on the survey page                                               *)
(***************************************************************************)

IsNumber(v) == v.t = "number" /\ v # NaN

SentinelRows(video) ==
    {i \in DOMAIN oSheet :
        cellAt(oSheet[i], 2) = Str(video) /\ cellAt(oSheet[i], 3) = Str("null")}

SentinelRecords(video) ==
    {i \in DOMAIN filteredData :
        filteredData[i].video = Str(video) /\ filteredData[i].movement = Str("null")}

\* C14: for each video at most one sentinel row (movement "null") is in the
\* store and at most one sentinel record is in filteredData, after any
\* sequence of clicks on 'No'.
C14_AtMostOneSentinel ==
    \A v \in DOMAIN VideoNames :
        /\ Cardinality(SentinelRows(VideoNames[v])) <= 1
        /\ Cardinality(SentinelRecords(VideoNames[v])) <= 1

\* C15: a row sent to the store with "null" in one of movement, startTime and
\* endTime has "null" in all three.
C15_SentinelInAllThree ==
    \A i \in DOMAIN oSheet :
        (\E col \in {3, 4, 5} : cellAt(oSheet[i], col) = Str("null")) =>
            (\A col \in {3, 4, 5} : cellAt(oSheet[i], col) = Str("null"))

\* C16: every row sent to the store with a numeric startTime and a numeric
\* endTime has startTime <= endTime.
C16_StartBeforeEnd ==
    \A i \in DOMAIN oSheet :
        (IsNumber(cellAt(oSheet[i], 4)) /\ IsNumber(cellAt(oSheet[i], 5))) =>
            cellAt(oSheet[i], 4).n <= cellAt(oSheet[i], 5).n

\* C17: a click on 'Save' with an empty description or with the start or end
\* display still at "-.--" makes no upload and no store call, pushes nothing
\* on filteredData or local storage (each holds exactly the records of the
\* calls whose append resolved), and its error is caught by the handler; every
\* rejected call is caught by its handler.
C17_InvalidSaveTouchesNothing ==
    /\ \A c \in SaveIds :
          (saves[c].form.blank \/ saves[c].form.noStart \/ saves[c].form.noEnd) =>
              /\ saves[c].pc = "rejected"
              /\ saves[c].uploads = 0
              /\ saves[c].appends = 0
              /\ ~saves[c].pushed
              /\ saves[c].caughtBy = "handleSaveOnomatopoeia"
    /\ \A c \in SaveIds :
          saves[c].pc = "rejected" =>
              saves[c].caughtBy = IF saves[c].by = "no" THEN "handleNoOnomatopoeia"
                                  ELSE "handleSaveOnomatopoeia"
    /\ Len(filteredData) = Cardinality({c \in SaveIds : saves[c].pushed})
    /\ Len(oSheet) = Cardinality({c \in SaveIds : saves[c].pushed})
    /\ localStorageData = jsonArray(filteredData)

C17_Witness ==
    /\ saves[1].pc = "resolved"
    /\ saves[2].pc = "rejected"
    /\ saves[2].form = [blank |-> FALSE, noStart |-> FALSE, noEnd |-> TRUE, recording |-> TRUE]
    /\ saves[2].uploads = 0
    /\ Len(filteredData) = 1
    /\ Len(oSheet) = 1

\* C18: a saved description with no audio is in the store as a row with
\* hasAudio = 0 and audioFileName = "", and the record pushed on filteredData
\* and local storage has the same value as the row in every field,
\* audioFileName = "" included.
C18_LocalRecordSameAsRow ==
    \A i \in DOMAIN filteredData :
        (filteredData[i].movement # Str("null") /\ filteredData[i].hasAudio = Num(0)) =>
            /\ cellAt(oSheet[i], 7) = Num(0)
            /\ cellAt(oSheet[i], 8) = Str("")
            /\ \A key \in DOMAIN onomatopoeiaMapping \ {"emotion"} :
                  /\ filteredData[i][key] = cellAt(oSheet[i], onomatopoeiaMapping[key])
                  /\ localStorageData[i][key] = cellAt(oSheet[i], onomatopoeiaMapping[key])

(***************************************************************************)
(* Claims on the audio recording service                                   *)
(***************************************************************************)

\* C19: a capture stream whose tracks are live belongs to a recording session
\* that has not ended: its recorder records or the events of its stop() are
\* still queued, and the page has not logged out.
C19_StreamsReleased ==
    \A k \in StartIds :
        audio.streams[k] = "live" =>
            /\ ~loggedOut
            /\ audio.recorders[k] \in {"recording", "stopping"}

\* C20: a call of startRecording that ended because capture is unsupported,
\* permission was denied or the device failed resolved to false, reported
\* exactly one error through onError, of type NOT_SUPPORTED, PERMISSION_DENIED
\* or GENERIC_ERROR respectively, and left isRecording false and no recording;
\* no call ends otherwise than resolved.
C20_FailureReportedOnce ==
    \A k \in StartIds :
        /\ aStarts[k].pc \in {"unused", "idle", "awaitGetUserMedia", "resolved"}
        /\ aStarts[k].cause # "" =>
              /\ aStarts[k].pc = "resolved"
              /\ aStarts[k].value = FALSE
              /\ aStarts[k].reported =
                    <<CASE aStarts[k].cause = "unsupported" -> "NOT_SUPPORTED"
                        [] aStarts[k].cause = "denied" -> "PERMISSION_DENIED"
                        [] OTHER -> "GENERIC_ERROR">>
              /\ ~aStarts[k].isRecording
              /\ ~aStarts[k].hasRecording

C20_Witness ==
    /\ aStarts[1].cause = "denied"
    /\ aStarts[1].reported = <<"PERMISSION_DENIED">>
    /\ aStarts[2].cause = "device"
    /\ aStarts[2].reported = <<"GENERIC_ERROR">>

(***************************************************************************)
(* Claims on the end of the tutorial and on the order of its steps         *)
(***************************************************************************)

\* a step of the controller (Next button or auto-advance) has just moved the
\* sequencer from a lower step to step N
ArrivesAtLastStep ==
    /\ currentStep < totalSteps
    /\ currentStep' = totalSteps
    /\ lastOp'.hasCb

\* C25 (as stated): when advance moves the sequencer to step N, from the Next
\* button or from an auto-advance, the controller renders the completion
\* screen in that same step.
C25_CompletionOnArrival == [][ArrivesAtLastStep => completionShown']_vars

\* C25: the completion screen is rendered by nextStep exactly when advance
\* returns false at step N, that is on a click on Next while the sequencer is
\* already at step N; arriving at step N renders nothing, and the screen is
\* never rendered while currentStep < N.
C25_CompletionOnNextAtLast ==
    [][/\ (completionShown' /\ ~completionShown) =>
             /\ currentStep = totalSteps
             /\ currentStep' = totalSteps
             /\ lastOp'.op = "advance"
             /\ lastOp'.hasCb
             /\ lastOp'.ret = "false"
       /\ ArrivesAtLastStep => completionShown' = completionShown
       /\ (currentStep = totalSteps /\ lastOp'.op = "advance" /\ lastOp'.hasCb
           /\ lastOp'.from = totalSteps /\ lastOp' # lastOp) => completionShown'
      ]_vars

C25_Witness ==
    /\ completionShown
    /\ currentStep = totalSteps
    /\ lastOp.op = "advance"
    /\ lastOp.hasCb
    /\ lastOp.from = totalSteps
    /\ lastOp.ret = "false"

\* C27: every required step below the current step has its validation flag
\* set: currentStep > s implies stepValidation[validation key of s] for s in
\* {2, 4, 5, 6, 7, 9}, so at step N all six flags are set.
C27_PassedStepsValidated ==
    /\ RequiredSteps = {2, 4, 5, 6, 7, 9}
    /\ \A s \in RequiredSteps :
          currentStep > s => stepValidation[stepConfigs[s].validation]
    /\ currentStep = totalSteps => \A k \in ValidationKeys : stepValidation[k]

C27_Witness ==
    /\ currentStep = totalSteps
    /\ lastOp.op = "markActionCompleted"
    /\ lastOp.from = totalSteps - 1
    /\ lastOp.onAutoAdvance
    /\ \A k \in ValidationKeys : stepValidation[k]

(***************************************************************************)
(* Claims on the bubble positioner                                         *)
(***************************************************************************)
\* the candidates of the call, in preference order
Candidates ==
    generatePositionStrategies(bTarget, bBubble, defaultOptions.offset, bPreferences)

\* the rectangle of the bubble placed at p lies within the padded viewport
InsidePaddedViewport(p) ==
    /\ px(defaultOptions.viewportPadding) <= p.left
    /\ p.left + px(bBubble.width) <= px(bViewport.width - defaultOptions.viewportPadding)
    /\ px(defaultOptions.viewportPadding) <= p.top
    /\ p.top + px(bBubble.height) <= px(bViewport.height - defaultOptions.viewportPadding)

SomeCandidateFits == \E i \in DOMAIN Candidates : InsidePaddedViewport(Candidates[i])

\* C22: when at least one candidate fits, the positioner returns the first
\* candidate in preference order that fits, and the bubble's rectangle at the
\* returned position satisfies padding <= left, left + width <= viewportWidth
\* - padding, padding <= top and top + height <= viewportHeight - padding.
C22_FirstFitReturned ==
    (bDone /\ SomeCandidateFits) =>
        /\ ~bResult.threw
        /\ \E i \in DOMAIN Candidates :
              /\ InsidePaddedViewport(Candidates[i])
              /\ \A j \in 1..(i - 1) : ~InsidePaddedViewport(Candidates[j])
              /\ bResult.left = Candidates[i].left
              /\ bResult.top = Candidates[i].top
        /\ InsidePaddedViewport(bResult)

C22_Witness ==
    /\ bDone
    /\ SomeCandidateFits
    /\ Len(Candidates) > 1
    /\ ~InsidePaddedViewport(Candidates[1])
    /\ bResult.left # Candidates[1].left

\* the bubble is small enough to fit the padded viewport
BubbleSmallEnough ==
    /\ bBubble.width <= bViewport.width - 2 * defaultOptions.viewportPadding
    /\ bBubble.height <= bViewport.height - 2 * defaultOptions.viewportPadding

\* C23: the positioner never rejects: for any target rectangle, bubble size
\* and preference list the call returns a position without throwing; when no
\* candidate fits, the position has left >= padding and top >= padding, and
\* lies fully inside the padded viewport whenever the bubble is small enough.
C23_NeverRejects ==
    bDone =>
        /\ ~bResult.threw
        /\ ~SomeCandidateFits =>
              /\ bResult.left >= px(defaultOptions.viewportPadding)
              /\ bResult.top >= px(defaultOptions.viewportPadding)
              /\ BubbleSmallEnough => InsidePaddedViewport(bResult)

(***************************************************************************)
(* Claims on the modal manager                                             *)
(***************************************************************************)
\* C29: after any sequence of showModal and hideModal calls, modalStack
\* contains each active modal id exactly once and nothing else, so
\* hasActiveModals() is true exactly when some isModalActive(id) is true, and
\* onClose runs at most once per showModal.
C29_StackMatchesActive ==
    /\ \A id \in ModalIds :
          Cardinality({i \in DOMAIN modalStack : modalStack[i] = id})
              = (IF isModalActive(id) THEN 1 ELSE 0)
    /\ hasActiveModals <=> \E id \in ModalIds : isModalActive(id)
    /\ \A k \in ShowIds : onCloseRuns[k] <= 1

(***************************************************************************)
(* Claims on local storage                                                 *)
(***************************************************************************)
\* C21: after logout from any page (survey, tutorial or reasoning) none of
\* the keys participantInfo, filteredData, reasoningData and surveyCompleted
\* remains in local storage, so the next participant on the same browser
\* never holds a surveyCompleted flag or reasoning data written by the
\* previous participant.
C21_LogoutClearsStorage ==
    /\ pageOp = "logout" => \A k \in StorageKeys : storage[k] = NoItem
    /\ \A k \in StorageKeys : storage[k] \in {NoItem, participant}

(***************************************************************************)
(* Claims on the reasoning page                                            *)
(***************************************************************************)
\* the row of the sheet is the row of description i
RowOfDescription(row, i) ==
    /\ prop(row, "participantId") = prop(rEntries[i], "participantId")
    /\ prop(row, "video") = prop(rEntries[i], "video")
    /\ prop(row, "movement") = prop(rEntries[i], "movement")
    /\ prop(row, "startTime") = prop(rEntries[i], "startTime")
    /\ prop(row, "endTime") = prop(rEntries[i], "endTime")

\* C24: after a reasoning of at least 5 characters is saved for a
\* description, the existing sheet row matching (participantId, video,
\* movement, startTime, endTime) carries that reasoning text, and no new row
\* has been appended for it.
C24_ReasoningOnExistingRow ==
    rLast.message = "reasoning.success_saved" =>
        /\ \E r \in DOMAIN rSheet :
              /\ RowOfDescription(rSheet[r], rLast.index)
              /\ prop(rSheet[r], "reasoning") = Str(rLast.text)
        /\ Len(rSheet) = Len(rEntries)

\* C30: saving a reasoning for one description never replaces or removes the
\* stored reasoning of a different description, also one of the same video
\* with a different movement and equal start and end times; the progress
\* count equals the number of distinct descriptions that have a reasoning.
C30_ReasoningsKeptApart ==
    /\ \A i \in DOMAIN rEntries :
          rGiven[i] # "" =>
              \E k \in DOMAIN reasoningData :
                  rOwner[k] = i /\ reasoningData[k].reasoning = Str(rGiven[i])
    /\ rLast.progress = Cardinality({i \in DOMAIN rEntries : rGiven[i] # ""})

(***************************************************************************)
(* Claims on the video buttons of the survey page                          *)
(***************************************************************************)
\* the saved responses of a video
SavedResponses(videoName) ==
    SelectSeq(filteredData, LAMBDA item : item.video = Str(videoName))

\* C26: after any display reset each video button state is a function of the
\* saved responses: a video whose saved responses are all sentinel rows is in
\* the 'no-onomatopoeia' state, a video with at least one real description is
\* in the 'completed' state, a video with no saved response is in neither.
C26_ButtonStateFromResponses ==
    \A v \in DOMAIN VideoNames :
        LET responses == SavedResponses(VideoNames[v])
        IN  buttonStates[v] =
                IF Len(responses) = 0 THEN ""
                ELSE IF \A i \in DOMAIN responses : responses[i].movement = Str("null")
                     THEN "no-onomatopoeia"
                     ELSE "completed"

(***************************************************************************)
(* Claims on overlapping calls of startRecording                           *)
(***************************************************************************)
\* some call of startRecording was made while another was waiting for getUserMedia
SecondCallBeforeFirstResolved == \E k \in StartIds : aStarts[k].overlapping

\* C28: if startRecording is called a second time before the first call's
\* getUserMedia request has resolved, the already-recording guard rejects the
\* second call, at most one capture stream ends up live, and every live
\* stream has its recorder held by the service.
C28_SecondStartRejected ==
    SecondCallBeforeFirstResolved =>
        /\ \A k \in StartIds :
              aStarts[k].overlapping =>
                  aStarts[k].pc = "resolved" /\ aStarts[k].value = FALSE
        /\ Cardinality({k \in StartIds : audio.streams[k] = "live"}) <= 1
        /\ \A k \in StartIds :
              audio.streams[k] = "live" => audio.state.mediaRecorder = k

====
